---- MODULE Spec2Model ----
(***************************************************************************)
(* Invoice generator (catearacil/facturas): the invoice partitioner of     *)
(* src/src/invoice_splitter.py, the numbering of                           *)
(* src/src/invoice_generator.py and src/src/history_manager.py, and the    *)
(* two entry points src/app.py (dashboard) and src/src/main.py (CLI).      *)
(*                                                                         *)
(* Money.  The program computes with IEEE doubles.  The model keeps the    *)
(* decimal value of every amount as an exact rational                      *)
(* [n |-> numerator, d |-> denominator > 0] in euros, in lowest terms      *)
(* (302.50 is 605/2), and keeps of the rounding error of the doubles what  *)
(* decides an outcome, in fp_err:                                           *)
(*   total    +1 when the double of the tax-inclusive total lies just      *)
(*            above its decimal value, -1 just below, 0 when it is exact;  *)
(*   first_up whether the double of an amount of the parts before the      *)
(*            last (or of the single draft) that is exactly half-way       *)
(*            between two cents lies above the half;                       *)
(*   last_up  the same for the amounts of the last part.                   *)
(* The error is smaller than any difference between two decimal values of  *)
(* the model, so it decides the program's outcome only where decimal       *)
(* arithmetic gives an exact tie: a total equal to the ceiling, a total    *)
(* that is an exact multiple of the ceiling, an amount exactly half-way    *)
(* between two cents.  fp_err is a function of the call's inputs that the  *)
(* model does not compute: it is drawn with them.                          *)
(* Measured on the program (CPython, IEEE-754 binary64):                   *)
(*   base 100.00 at 10 %: 100.0 * (1 + 0.1) = 110.00000000000001  (+1)     *)
(*   base 1500.00 at 10 %: 1650.0000000000002                     (+1)     *)
(*   base 15.00 at 21 %, ceiling 1.21: 18.15 / 1.21 = 15.0 but             *)
(*        18.15 % 1.21 = 1.209999999999999                        (-1)     *)
(*   base 1000.00, 700.00, 300.00 at 21 %: exact                  ( 0)     *)
(*                                                                         *)
(* Invoice numbers.  A number string is modelled as the sequence of its   *)
(* characters: "T250263" is <<"T","2","5","0","2","6","3">>.               *)
(***************************************************************************)
EXTENDS Integers, Sequences, FiniteSets, TLC

\* ------------------------------------------------------------------ bounds
\* Taxable bases drawn for a transaction: 0.01 .. MaxBaseCents/100 euros.
MaxBaseCents == 12
\* Ceilings drawn for max_total: 0.010 .. MaxCeilMilli/1000 euros in steps
\* of a tenth of a cent (whole-cent ceilings and ceilings between two cents;
\* ceilings start at one cent).
MaxCeilMilli == 60
\* Data rows a statement may hold.
MaxRows == 3
\* Characters a text handed to clean_amount on its own may hold.
MaxAmountLen == 3
\* Rows the sheet handed to find_header_row may hold.
MaxSheetRows == 3
\* Transactions a list handed to process_transactions on its own may hold.
MaxTransactions == 3
\* Calls of split_transaction made between the runs.
MaxCalls == 2

\* Sequence numbers 1..MaxSequence of the invoice numbers that
\* fix_nomenclature.py is given, besides 263, 264 and 9999.
MaxSequence == 30
\* Rows the table invoice_history, and records the JSON file, may hold.
MaxRecords == 2
\* Highest id the table's SERIAL column hands out.
MaxRecordId == 3
\* Numbers the runs of the command line may stamp in all.
MaxIssued == 4

\* ------------------------------------------------------------- variables
VARIABLES
    IVA_RATE,           \* config.IVA_RATE, a rational (0.21 is 21/100)
    MAX_INVOICE_BASE,   \* config.MAX_INVOICE_BASE, a rational, in euros
    transaction,        \* the transaction handed to split_transaction
    max_total,          \* its max_total argument: a rational, or None
    invoices,           \* the list split_transaction returned
    split_pc,           \* "ready" before the call, "done" after it
    fp_err,             \* where the doubles lie: [total, first_up, last_up]
    USE_DATABASE,       \* history_manager.USE_DATABASE: db_manager imported
    db_up,              \* whether get_db_connection() connects
    invoice_history,    \* rows of the table invoice_history, oldest first
    db_next_id,         \* next value of the table's SERIAL id
    history_json,       \* content of output/history/history.json
    today,              \* datetime.now(): an index into Calendar
    issued,             \* the numbers create_invoice_pdf has stamped, in order
    last_run,           \* the entry point that ran last, with what it computed
                        \* and the exception it reported ("none" if none)
    session,            \* per browser session, where its run of the handler
                        \* of "Procesar Extracto" stands, with its locals
    df,                 \* the DataFrame read from the statement
    columns,            \* the mapping identify_columns returned for it
    extract_pc,         \* "ready" before process_santander_file filters
                        \* the table, "done" after it
    extracted,          \* what the call returned, or the error it raised
    amount_arg,         \* the cell handed to clean_amount
    clean_result,       \* what clean_amount returned or raised; None before
    file_rows,          \* the rows of the sheet at file_path, top-down, each
                        \* the list of its cells
    max_rows,           \* the max_rows argument of find_header_row
    header_row,         \* what find_header_row returned; None before
    invoice_number_str, \* the argument of fix_nomenclature.extract_invoice_info
    invoice_info,       \* the tuple it returned; None before
    statement,          \* the transactions handed to process_transactions
    split_transactions, \* the split records it returned with the drafts
    returned            \* what the calls of split_transaction made between
                        \* the runs returned, oldest first, each with the
                        \* ceiling it applied

splitVars ==
    <<transaction, max_total, split_pc, fp_err>>

configVars ==
    <<IVA_RATE, MAX_INVOICE_BASE>>

sessionVars ==
    <<session>>

readerVars ==
    <<df, columns, extract_pc, extracted>>

cleanVars ==
    <<amount_arg, clean_result>>

headerVars ==
    <<file_rows, max_rows, header_row>>

nomenclatureVars ==
    <<invoice_number_str, invoice_info>>

processVars ==
    <<statement, split_transactions, returned>>

callVars ==
    <<cleanVars, headerVars, nomenclatureVars, processVars>>

historyVars ==
    <<invoice_history, db_next_id, history_json>>

envVars ==
    <<USE_DATABASE, db_up, today>>

vars ==
    <<IVA_RATE, MAX_INVOICE_BASE, transaction, max_total, invoices, split_pc,
      fp_err, USE_DATABASE, db_up, invoice_history, db_next_id, history_json,
      today, issued, last_run, session, df, columns, extract_pc, extracted,
      amount_arg, clean_result, file_rows, max_rows, header_row,
      invoice_number_str, invoice_info, statement, split_transactions,
      returned>>

\* ------------------------------------------------------- exact arithmetic
RECURSIVE GCD(_, _)
GCD(a, b) ==
    IF b = 0 THEN a ELSE GCD(b, a % b)

Abs(x) ==
    IF x < 0 THEN -x ELSE x

\* The rational num/den (den > 0) in lowest terms.
Rat(num, den) ==
    LET g == GCD(Abs(num), den)
    IN  [n |-> num \div g, d |-> den \div g]

\* The operations reduce before they multiply, so that intermediate
\* products stay small.
RAdd(a, b) ==
    LET g == GCD(a.d, b.d)
    IN  Rat(a.n * (b.d \div g) + b.n * (a.d \div g), (a.d \div g) * b.d)

RSub(a, b) ==
    LET g == GCD(a.d, b.d)
    IN  Rat(a.n * (b.d \div g) - b.n * (a.d \div g), (a.d \div g) * b.d)

RMul(a, b) ==
    LET g1 == GCD(Abs(a.n), b.d)
        g2 == GCD(Abs(b.n), a.d)
    IN  Rat((a.n \div g1) * (b.n \div g2), (a.d \div g2) * (b.d \div g1))

\* a / b for b > 0
RDiv(a, b) ==
    RMul(a, [n |-> b.d, d |-> b.n])

RLe(a, b) ==
    LET g == GCD(a.d, b.d)
    IN  a.n * (b.d \div g) <= b.n * (a.d \div g)

RLt(a, b) ==
    LET g == GCD(a.d, b.d)
    IN  a.n * (b.d \div g) < b.n * (a.d \div g)

FromInt(k) ==
    [n |-> k, d |-> 1]

\* Python int(x) of a float x >= 0: truncation.
PyInt(x) ==
    x.n \div x.d

\* Python a % b on floats, b > 0: a - floor(a / b) * b.
PyMod(a, b) ==
    RSub(a, RMul(FromInt(PyInt(RDiv(a, b))), b))

\* Python round(x, 2) for x >= 0: the nearest multiple of 0.01.  A decimal
\* value exactly half-way between two cents goes where its double lies
\* (round(0.015, 2) is 0.01: 0.015 is stored as 0.01499999999999999944...).
PyRound2(x, up) ==
    LET y == RMul(x, FromInt(100))
        q == y.n \div y.d
        r == y.n % y.d
        c == IF 2 * r < y.d THEN q
             ELSE IF 2 * r > y.d THEN q + 1
             ELSE IF up THEN q + 1 ELSE q
    IN  Rat(c, 100)

\* Python None, as an argument or a missing value.
None ==
    [none |-> TRUE]

\* An Optional[int] that is not None: the integer x.
Some(x) ==
    [some |-> x]

\* ----------------------------------------------------------- config.py
DEFAULT_IVA_RATE ==
    Rat(21, 100)

DEFAULT_MAX_INVOICE_BASE ==
    Rat(40000, 100)

\* The module config as the running process holds it.  The functions that
\* read config take it as their first argument, cfg.
config ==
    [IVA_RATE |-> IVA_RATE, MAX_INVOICE_BASE |-> MAX_INVOICE_BASE]

\* ------------------------------------------------- invoice_splitter.py
\* The tax-inclusive total split_transaction works with: the transaction's
\* own 'importe_con_iva' when it carries one, else base * (1 + IVA_RATE).
importe_con_iva_of(cfg, t) ==
    IF "importe_con_iva" \in DOMAIN t
    THEN t.importe_con_iva
    ELSE RMul(t.importe, RAdd(FromInt(1), cfg.IVA_RATE))

\* The rounding error of the product base * (1 + IVA_RATE): none when the
\* transaction brings its own total, and none at the rate 0 (1 + 0.0 is 1.0
\* and the product is the base).
product_err(cfg, t) ==
    IF "importe_con_iva" \in DOMAIN t \/ cfg.IVA_RATE = FromInt(0)
    THEN 0
    ELSE fp_err.total

\* importe_con_iva <= max_total on the doubles: a total that equals the
\* ceiling in decimal compares as its double lies.
total_within(cfg, t, T, mt) ==
    RLt(T, mt) \/ (T = mt /\ product_err(cfg, t) <= 0)

\* importe_con_iva % max_total > 0 on the doubles.  The float remainder is
\* computed exactly from the two doubles, so for a total that is an exact
\* multiple of the ceiling in decimal it is 0 only when the doubles are
\* exact; otherwise it is the error itself (just above 0) or the ceiling
\* less the error (18.15 % 1.21 is 1.209999999999999).
remainder_positive(T, mt) ==
    \/ RLt(FromInt(0), PyMod(T, mt))
    \/ fp_err.total # 0

\* num_invoices = int(T / max_total), plus one when T % max_total > 0.
\* The float quotient is rounded to the nearest double, so int() of it is
\* the decimal quotient's integer part (18.15 / 1.21 is 15.0).
num_invoices_of(T, mt) ==
    LET q == PyInt(RDiv(T, mt))
    IN  IF remainder_positive(T, mt) THEN q + 1 ELSE q

\* The single draft of a transaction whose total is within the ceiling.
single_invoice(t, T) ==
    [fecha           |-> t.fecha,
     concepto        |-> t.concepto,
     base_imponible  |-> t.importe,
     original_amount |-> t.importe,
     part_number     |-> 1,
     total_parts     |-> 1,
     importe_con_iva |-> PyRound2(T, fp_err.first_up)]

\* Draft number i (1-based: the loop's i + 1) of a split into n drafts.
part_invoice(cfg, t, T, n, i) ==
    LET total_per_invoice == RDiv(T, FromInt(n))
        invoice_total ==
            IF i = n
            THEN RSub(T, RMul(total_per_invoice, FromInt(n - 1)))
            ELSE total_per_invoice
        invoice_base == RDiv(invoice_total, RAdd(FromInt(1), cfg.IVA_RATE))
        up == IF i = n THEN fp_err.last_up ELSE fp_err.first_up
    IN  [fecha           |-> t.fecha,
         concepto        |-> t.concepto,
         base_imponible  |-> PyRound2(invoice_base, up),
         original_amount |-> t.importe,
         part_number     |-> i,
         total_parts     |-> n,
         importe_con_iva |-> PyRound2(invoice_total, up)]

split_transaction(cfg, t, max_total_arg) ==
    LET mt == IF max_total_arg = None
              THEN cfg.MAX_INVOICE_BASE
              ELSE max_total_arg
        T  == importe_con_iva_of(cfg, t)
    IN  IF total_within(cfg, t, T, mt)
        THEN <<single_invoice(t, T)>>
        ELSE LET n == num_invoices_of(T, mt)
             IN  [i \in 1..n |-> part_invoice(cfg, t, T, n, i)]

\* The list of drafts process_transactions returns (the first component of
\* its result): all_invoices after the loop has visited k transactions.
process_transactions(cfg, transactions, max_total_arg) ==
    LET mt == IF max_total_arg = None
              THEN cfg.MAX_INVOICE_BASE
              ELSE max_total_arg
        all_invoices[k \in 0..Len(transactions)] ==
            IF k = 0
            THEN <<>>
            ELSE all_invoices[k - 1]
                     \o split_transaction(cfg, transactions[k], mt)
    IN  all_invoices[Len(transactions)]

\* The records of the split transactions, were one appended for every
\* transaction.
split_records_for_every_transaction(cfg, transactions, max_total_arg) ==
    LET mt == IF max_total_arg = None
              THEN cfg.MAX_INVOICE_BASE
              ELSE max_total_arg
    IN  [k \in DOMAIN transactions |->
            [fecha            |-> transactions[k].fecha,
             concepto         |-> transactions[k].concepto,
             importe_original |-> importe_con_iva_of(cfg, transactions[k]),
             num_facturas     |-> Len(split_transaction(cfg, transactions[k], mt)),
             limite_aplicado  |-> mt]]

\* The second component of what process_transactions returns:
\* split_transactions after the loop has visited k transactions (lines
\* 105-117).
split_records(cfg, transactions, max_total_arg) ==
    LET mt == IF max_total_arg = None
              THEN cfg.MAX_INVOICE_BASE
              ELSE max_total_arg
        records[k \in 0..Len(transactions)] ==
            IF k = 0
            THEN <<>>
            ELSE LET drafts == split_transaction(cfg, transactions[k], mt)
                 IN  IF Len(drafts) > 1
                     THEN Append(records[k - 1],
                                 [fecha            |-> transactions[k].fecha,
                                  concepto         |-> transactions[k].concepto,
                                  importe_original |->
                                      importe_con_iva_of(cfg, transactions[k]),
                                  num_facturas     |-> Len(drafts),
                                  limite_aplicado  |-> mt])
                     ELSE records[k - 1]
    IN  records[Len(transactions)]

\* ------------------------------------------------------ number strings
DigitChars ==
    <<"0", "1", "2", "3", "4", "5", "6", "7", "8", "9">>

\* The regular expression class \d.
IsDigit(c) ==
    \E i \in DOMAIN DigitChars : DigitChars[i] = c

DigitValue(c) ==
    (CHOOSE i \in DOMAIN DigitChars : DigitChars[i] = c) - 1

\* Python str(n) for n >= 0.
RECURSIVE StrOfNat(_)
StrOfNat(n) ==
    IF n < 10
    THEN <<DigitChars[n + 1]>>
    ELSE StrOfNat(n \div 10) \o <<DigitChars[(n % 10) + 1]>>

\* Python format(n, "04d") for n >= 0: at least four digits, zero-padded.
Format04d(n) ==
    LET str == StrOfNat(n)
    IN  IF Len(str) >= 4
        THEN str
        ELSE [i \in 1..(4 - Len(str)) |-> "0"] \o str

\* Python int(s) of a string of digits.
RECURSIVE IntOfDigits(_)
IntOfDigits(str) ==
    IF str = <<>>
    THEN 0
    ELSE 10 * IntOfDigits(SubSeq(str, 1, Len(str) - 1))
             + DigitValue(str[Len(str)])

\* ------------------------------------------------ config.py, numbering
\* The template as it would read with the year cut to its last two digits
\* (the shape of the examples in the comments of config.py).
INVOICE_NUMBER_FORMAT_two_digit_year(year, number) ==
    <<"T">> \o StrOfNat(year % 100) \o Format04d(number)

\* INVOICE_NUMBER_FORMAT.format(year=year, number=number), the template
\* being "T{year}{number:04d}".
INVOICE_NUMBER_FORMAT(year, number) ==
    <<"T">> \o StrOfNat(year) \o Format04d(number)

LAST_INVOICE_NUMBERS ==
    (2025 :> 263)

\* --------------------------------------------------- invoice_generator.py
generate_invoice_number(year, number) ==
    INVOICE_NUMBER_FORMAT(year, number)

\* The parameters generate_invoices declares.
generate_invoices_params ==
    {"invoices", "output_dir", "start_number"}

\* The list generate_invoices returns: every draft with the number stamped
\* on its PDF, numbered from start_number within the current year.
generate_invoices(drafts, start_number, current_year) ==
    [i \in 1..Len(drafts) |->
        [number  |-> generate_invoice_number(current_year, start_number + i - 1),
         invoice |-> drafts[i]]]

\* ------------------------------------------------------------ the clock
\* The months datetime.now() passes through.
Calendar ==
    <<[year |-> 2025, month |-> 12], [year |-> 2026, month |-> 1]>>

\* datetime.now().year
now_year ==
    Calendar[today].year

\* datetime.now().strftime('%Y-%m'), as the pair it renders.
now_month ==
    Calendar[today]

\* ---------------------------------------------------------- db_manager.py
\* SELECT * FROM invoice_history ORDER BY timestamp DESC; every failure is
\* caught and gives the empty list.
load_history_from_db ==
    IF db_up
    THEN [i \in 1..Len(invoice_history) |->
             invoice_history[Len(invoice_history) + 1 - i]]
    ELSE <<>>

\* ----------------------------------------------------- history_manager.py
\* load_history(): the table when db_manager was imported (the call never
\* raises), else the JSON file.
load_history ==
    IF USE_DATABASE THEN load_history_from_db ELSE history_json

\* The 'number' of every invoice file of every record, in the order the
\* scans visit them.
RECURSIVE invoice_numbers(_)
invoice_numbers(history) ==
    IF history = <<>>
    THEN <<>>
    ELSE [i \in DOMAIN Head(history).invoice_files |->
             Head(history).invoice_files[i].number]
         \o invoice_numbers(Tail(history))

\* re.match(r'T\d{2}(\d{4})', s): int(group 1), or None.
extract_invoice_number(str) ==
    IF /\ Len(str) >= 7
       /\ str[1] = "T"
       /\ \A i \in 2..7 : IsDigit(str[i])
    THEN Some(IntOfDigits(SubSeq(str, 4, 7)))
    ELSE None

\* re.match(r'T(\d{2})', s): 2000 + int(group 1), or None.
invoice_year(str) ==
    IF /\ Len(str) >= 3
       /\ str[1] = "T"
       /\ \A i \in 2..3 : IsDigit(str[i])
    THEN Some(2000 + IntOfDigits(SubSeq(str, 2, 3)))
    ELSE None

\* The loop of get_last_invoice_number over the numbers still to visit.
RECURSIVE scan_last_number(_, _, _)
scan_last_number(numbers, year, last_number) ==
    IF numbers = <<>>
    THEN last_number
    ELSE LET str == Head(numbers)
             number == extract_invoice_number(str)
             found == /\ invoice_year(str) # None
                      /\ invoice_year(str).some = year
                      /\ number # None
                      /\ number.some # 0
                      /\ number.some > last_number
         IN  scan_last_number(Tail(numbers), year,
                              IF found THEN number.some ELSE last_number)

get_last_invoice_number(year) ==
    LET last_number == scan_last_number(invoice_numbers(load_history), year, 0)
    IN  IF last_number = 0
        THEN IF year \in DOMAIN LAST_INVOICE_NUMBERS
             THEN LAST_INVOICE_NUMBERS[year]
             ELSE 0
        ELSE last_number

\* The loop of get_last_year_with_invoices: the year of the first number
\* that carries the highest sequence; a year is Some(y), or None.
RECURSIVE scan_last_year(_, _, _)
scan_last_year(numbers, last_year, last_number) ==
    IF numbers = <<>>
    THEN last_year
    ELSE LET str == Head(numbers)
             number == extract_invoice_number(str)
             found == /\ invoice_year(str) # None
                      /\ number # None
                      /\ number.some # 0
                      /\ number.some > last_number
         IN  IF found
             THEN scan_last_year(Tail(numbers), invoice_year(str), number.some)
             ELSE scan_last_year(Tail(numbers), last_year, last_number)

get_last_year_with_invoices ==
    LET last_year == scan_last_year(invoice_numbers(load_history), None, 0)
    IN  IF last_year = None /\ DOMAIN LAST_INVOICE_NUMBERS # {}
        THEN Some(CHOOSE y \in DOMAIN LAST_INVOICE_NUMBERS :
                      \A z \in DOMAIN LAST_INVOICE_NUMBERS : z <= y)
        ELSE last_year

\* The record add_to_history builds, without its id.
history_record(invoice_files) ==
    [month         |-> now_month,
     invoice_count |-> Len(invoice_files),
     invoice_files |-> [i \in DOMAIN invoice_files |->
                           [number |-> invoice_files[i].number]]]

WithId(record, id) ==
    [id            |-> id,
     month         |-> record.month,
     invoice_count |-> record.invoice_count,
     invoice_files |-> record.invoice_files]

\* ------------------------------------------------- fix_nomenclature.py

\* The number of digits a \d+ takes from position `from` on.
RECURSIVE digits_from(_, _)
digits_from(str, from) ==
    IF from <= Len(str) /\ IsDigit(str[from])
    THEN 1 + digits_from(str, from + 1)
    ELSE 0

\* re.match(r'T(\d{4})(\d+)', s): the match starts at the first character,
\* group 1 is the four digits after the T, group 2 every digit that follows.
matches_new_format(str) ==
    /\ Len(str) >= 1
    /\ str[1] = "T"
    /\ digits_from(str, 2) >= 5

\* re.match(r'T(\d{2})(\d{4})', s).
matches_legacy_format(str) ==
    /\ Len(str) >= 1
    /\ str[1] = "T"
    /\ digits_from(str, 2) >= 6

\* extract_invoice_info(invoice_number_str): the pair (year, number), or
\* (None, None).  The pattern of the new format is tried first.
extract_invoice_info(str) ==
    IF matches_new_format(str)
    THEN [year   |-> Some(IntOfDigits(SubSeq(str, 2, 5))),
          number |-> Some(IntOfDigits(SubSeq(str, 6,
                                             1 + digits_from(str, 2))))]
    ELSE IF matches_legacy_format(str)
    THEN [year   |-> Some(2000 + IntOfDigits(SubSeq(str, 2, 3))),
          number |-> Some(IntOfDigits(SubSeq(str, 4, 7)))]
    ELSE [year |-> None, number |-> None]

\* generate_correct_number(year, number): f"T{year}{number:04d}".
generate_correct_number(year, number) ==
    <<"T">> \o StrOfNat(year) \o Format04d(number)

\* ------------------------------------------- inputs of the partitioner
Euros(cents) ==
    Rat(cents, 100)

Tx(base) ==
    [fecha |-> "01/10/2025", concepto |-> "TRANSFERENCIA", importe |-> base]

TxWithTotal(base, total) ==
    [fecha |-> "01/10/2025", concepto |-> "TRANSFERENCIA", importe |-> base,
     importe_con_iva |-> total]

IvaRates ==
    {Rat(0, 100), Rat(10, 100), Rat(21, 100)}

Fp(total, first_up, last_up) ==
    [total |-> total, first_up |-> first_up, last_up |-> last_up]

\* The doubles of amounts none of which is half-way between two cents.
FpTotal(e) ==
    Fp(e, FALSE, FALSE)

\* x lies exactly half-way between two cents.
HalfCent(x) ==
    LET y == RMul(x, FromInt(200))
    IN  y.d = 1 /\ y.n % 2 = 1

\* The decimal arithmetic of a call on base b, ceiling mt and rate r meets
\* no tie: the total is not a multiple of the ceiling, and neither the
\* total of the single draft nor the share and the base of a part lies
\* half-way between two cents.  The doubles' errors then decide nothing.
NoTie(b, mt, r) ==
    LET T == RMul(b, RAdd(FromInt(1), r))
        n == PyInt(RDiv(T, mt)) + 1
        share == RDiv(T, FromInt(n))
    IN  /\ PyMod(T, mt) # FromInt(0)
        /\ IF RLt(T, mt)
           THEN ~HalfCent(T)
           ELSE ~HalfCent(share) /\ ~HalfCent(RDiv(share, RAdd(FromInt(1), r)))

\* Every small base with every small ceiling at every rate, where no tie
\* is met.
GridInputs ==
    {[t |-> Tx(Euros(c)), mt |-> Rat(k, 1000), iva |-> r, fp |-> FpTotal(0)] :
        <<c, k, r>> \in
            {y \in (1..MaxBaseCents) \X (10..MaxCeilMilli) \X IvaRates :
                NoTie(Euros(y[1]), Rat(y[2], 1000), y[3])}}

In(t, mt, iva, fp) ==
    [t |-> t, mt |-> mt, iva |-> iva, fp |-> fp]

\* Calls whose outcome was taken from the program, each with the place of
\* its doubles.  At 21 %: 1000.00, 300.00 and 700.00 against the ceiling
\* 400.00 (given, or taken from config); 82.65 against 100.007 and 100.01
\* (the product 100.0065 rounds to 100.01); 15.00 against 1.21 (18.15 % 1.21 is
\* 1.209999999999999).  At 10 %: 100.00 against 110.00 (the product is
\* 110.00000000000001); 300.00 against 110.00 (the product is 330.0);
\* 1500.00 against 50.00 (1650.0000000000002); 0.05 against 0.11 (0.055
\* rounds to 0.06).  At 0 %: 110.00 and 330.00 against 110.00; 1000.01
\* against 600.00 (500.005 rounds to 500.0); 0.10 against 0.025 (0.025
\* rounds to 0.03, the last part 0.1 - 0.075 to 0.02).  Transactions that
\* carry their own total: 1210.00, 363.00 and 1210.02 (302.505 rounds to
\* 302.5).
RealisticInputs ==
    {In(Tx(Euros(b)), m, DEFAULT_IVA_RATE, FpTotal(0)) :
        b \in {100000, 30000, 70000}, m \in {Euros(40000), None}}
    \cup {In(Tx(Euros(8265)), Rat(100007, 1000), DEFAULT_IVA_RATE, FpTotal(0)),
          In(Tx(Euros(8265)), Euros(10001), DEFAULT_IVA_RATE, FpTotal(0)),
          In(Tx(Euros(1500)), Euros(121), DEFAULT_IVA_RATE, FpTotal(-1)),
          In(Tx(Euros(10000)), Euros(11000), Rat(10, 100), FpTotal(1)),
          In(Tx(Euros(30000)), Euros(11000), Rat(10, 100), FpTotal(0)),
          In(Tx(Euros(150000)), Euros(5000), Rat(10, 100), FpTotal(1)),
          In(Tx(Euros(5)), Euros(11), Rat(10, 100), Fp(0, TRUE, FALSE)),
          In(Tx(Euros(11000)), Euros(11000), Rat(0, 100), FpTotal(0)),
          In(Tx(Euros(33000)), Euros(11000), Rat(0, 100), FpTotal(0)),
          In(Tx(Euros(100001)), Euros(60000), Rat(0, 100), FpTotal(0)),
          In(Tx(Euros(10)), Rat(25, 1000), Rat(0, 100), Fp(0, TRUE, FALSE)),
          In(TxWithTotal(Euros(100000), Euros(121000)), Euros(40000),
             DEFAULT_IVA_RATE, FpTotal(0)),
          In(TxWithTotal(Euros(30000), Euros(36300)), Euros(40000),
             DEFAULT_IVA_RATE, FpTotal(0)),
          In(TxWithTotal(Euros(100000), Euros(121002)), Euros(40000),
             DEFAULT_IVA_RATE, FpTotal(0))}

SplitInputs ==
    GridInputs \cup RealisticInputs

\* ---------------------------------------------- inputs of the numbering
Years ==
    {Calendar[i].year : i \in DOMAIN Calendar}

\* First sequences of a recorded batch.
StartNumbers ==
    {1, 264}

\* Values of --start-number: the default, and 263.
StartNumberArgs ==
    {1, 263}

\* A number of the two-digit-year shape the comments of config.py show
\* ("T250263", the last invoice of 2025).
LegacyNumber(yy, number) ==
    <<"T">> \o StrOfNat(yy) \o Format04d(number)

\* The history the comments of config.py speak of: invoices of 2025 up to
\* T250263.
LegacyHistory ==
    <<[id            |-> 1,
       month         |-> Calendar[1],
       invoice_count |-> 2,
       invoice_files |-> <<[number |-> LegacyNumber(25, 50)],
                           [number |-> LegacyNumber(25, 263)]>>]>>

\* A history of two years in that shape: 2024 closed at T240300, 2025 has
\* reached T250263.
LegacyHistoryTwoYears ==
    <<[id            |-> 1,
       month         |-> Calendar[1],
       invoice_count |-> 2,
       invoice_files |-> <<[number |-> LegacyNumber(24, 300)],
                           [number |-> LegacyNumber(25, 263)]>>]>>

InitialHistories ==
    {<<>>, LegacyHistory, LegacyHistoryTwoYears}

\* Income transactions process_santander_file extracts from a statement:
\* none, or bases of 300.00 and 1000.00.
Statements ==
    {<<>>, <<Tx(Euros(30000))>>, <<Tx(Euros(30000)), Tx(Euros(100000))>>}

\* The rate (as a fraction) and the ceiling given in the sidebar or on the
\* command line: the defaults, or 10 % and 200.00.
Settings ==
    {[IVA_RATE |-> DEFAULT_IVA_RATE,
      MAX_INVOICE_BASE |-> DEFAULT_MAX_INVOICE_BASE],
     [IVA_RATE |-> Rat(10, 100), MAX_INVOICE_BASE |-> Euros(20000)]}

\* ------------------------------------------------------- Python strings
\* The texts whose characters the code looks at (header cells, column
\* names) are kept by name; chars_of spells a name out.
chars_of(name) ==
    CASE name = "Fecha Operación" ->
             <<"F", "e", "c", "h", "a", " ", "O", "p", "e", "r", "a", "c", "i", "ó", "n">>
      [] name = "Fecha Valor" ->
             <<"F", "e", "c", "h", "a", " ", "V", "a", "l", "o", "r">>
      [] name = "Concepto" ->
             <<"C", "o", "n", "c", "e", "p", "t", "o">>
      [] name = "Importe" ->
             <<"I", "m", "p", "o", "r", "t", "e">>
      [] name = "Saldo" ->
             <<"S", "a", "l", "d", "o">>
      [] name = "Divisa" ->
             <<"D", "i", "v", "i", "s", "a">>
      [] name = "Valor" ->
             <<"V", "a", "l", "o", "r">>
      [] name = "EXTRACTO" ->
             <<"E", "X", "T", "R", "A", "C", "T", "O">>
      [] name = "  FECHA " ->
             <<" ", " ", "F", "E", "C", "H", "A", " ">>
      [] name = "DESCRIPCIÓN" ->
             <<"D", "E", "S", "C", "R", "I", "P", "C", "I", "Ó", "N">>
      [] name = "Detalle" ->
             <<"D", "e", "t", "a", "l", "l", "e">>
      [] name = "Monto EUR" ->
             <<"M", "o", "n", "t", "o", " ", "E", "U", "R">>
      [] name = "TRANSFERENCIA" ->
             <<"T", "R", "A", "N", "S", "F", "E", "R", "E", "N", "C", "I", "A">>
      [] name = "01/10/2025" ->
             <<"0", "1", "/", "1", "0", "/", "2", "0", "2", "5">>
      [] name = "" ->
             <<>>
      [] name = "Unnamed: 0" ->
             <<"U", "n", "n", "a", "m", "e", "d", ":", " ", "0">>
      [] name = "Unnamed: 1" ->
             <<"U", "n", "n", "a", "m", "e", "d", ":", " ", "1">>
      [] name = "Unnamed: 2" ->
             <<"U", "n", "n", "a", "m", "e", "d", ":", " ", "2">>

UpperChars ==
    <<"A", "B", "C", "D", "E", "F", "G", "H", "I", "J", "K", "L", "M", "N", "O", "P", "Q", "R", "S", "T", "U", "V", "W", "X", "Y", "Z", "Ó">>

LowerChars ==
    <<"a", "b", "c", "d", "e", "f", "g", "h", "i", "j", "k", "l", "m", "n", "o", "p", "q", "r", "s", "t", "u", "v", "w", "x", "y", "z", "ó">>

\* str.lower()
py_lower(chars) ==
    [i \in DOMAIN chars |->
        IF \E k \in DOMAIN UpperChars : UpperChars[k] = chars[i]
        THEN LowerChars[CHOOSE k \in DOMAIN UpperChars : UpperChars[k] = chars[i]]
        ELSE chars[i]]

\* str.strip(): the text without its leading and trailing blanks.
py_strip(chars) ==
    LET inked == {i \in DOMAIN chars : chars[i] # " "}
    IN  IF inked = {}
        THEN <<>>
        ELSE SubSeq(chars,
                    CHOOSE i \in inked : \A j \in inked : i <= j,
                    CHOOSE i \in inked : \A j \in inked : j <= i)

\* kw in val, for two strings
py_in(kw, val) ==
    \E k \in 0..(Len(val) - Len(kw)) : SubSeq(val, k + 1, k + Len(kw)) = kw

\* ------------------------------------------------- santander_reader.py
\* Cells of a DataFrame, by what the code tests of them.  A text is the
\* sequence of its pieces: single characters where the code looks at
\* characters (amounts, dates), whole words elsewhere.
NaN ==
    [kind |-> "nan"]

\* An int or a float.
Number(x) ==
    [kind |-> "number", value |-> x]

Str(chars) ==
    [kind |-> "str", chars |-> chars]

\* A value with strftime (datetime, Timestamp).
Datetime(day, month, year) ==
    [kind |-> "datetime", day |-> day, month |-> month, year |-> year]

\* A Python int beyond the range of a double.
BigInt ==
    [kind |-> "bigint"]

\* What row[label] is when several columns carry the label.
Series ==
    [kind |-> "series"]

\* row[label] for a row of the frame.
RowGet(frame, row, label) ==
    LET at == {i \in DOMAIN frame.columns : frame.columns[i] = label}
    IN  IF Cardinality(at) = 1
        THEN row[CHOOSE i \in at : TRUE]
        ELSE Series

\* pd.isna(cell) of a scalar; of a Series it is a Series, whose truth value
\* raises ValueError.
pd_isna(cell) ==
    cell.kind = "nan"

AmbiguousTruth ==
    "The truth value of a Series is ambiguous. Use a.empty, a.bool(), a.item(), a.any() or a.all()."

RECURSIVE Pow10(_)
Pow10(k) ==
    IF k = 0 THEN 1 ELSE 10 * Pow10(k - 1)

\* The cleaning, were the commas left as they are.
cleaned_of_keeping_commas(chars) ==
    SelectSeq(chars, LAMBDA c : IsDigit(c) \/ c \in {",", ".", "-"})

\* re.sub(r'[^\d,.\-]', '', amount).replace(',', '.')
cleaned_of(chars) ==
    LET kept == SelectSeq(chars, LAMBDA c : IsDigit(c) \/ c \in {",", ".", "-"})
    IN  [i \in DOMAIN kept |-> IF kept[i] = "," THEN "." ELSE kept[i]]

\* float(cleaned) for a string of digits, periods and minus signs: Some(x),
\* or None where float raises ValueError.  float accepts one leading sign,
\* at most one period, and needs a digit.
float_of(cleaned) ==
    LET negative == cleaned # <<>> /\ cleaned[1] = "-"
        body == IF negative THEN Tail(cleaned) ELSE cleaned
        digits == SelectSeq(body, IsDigit)
        points == {i \in DOMAIN body : body[i] = "."}
        decimals == IF points = {} THEN 0
                    ELSE Len(body) - (CHOOSE i \in points : TRUE)
    IN  IF /\ \A i \in DOMAIN body : IsDigit(body[i]) \/ body[i] = "."
           /\ Cardinality(points) <= 1
           /\ digits # <<>>
        THEN Some(Rat((IF negative THEN -1 ELSE 1) * IntOfDigits(digits),
                      Pow10(decimals)))
        ELSE None

\* clean_amount: the float it returns, or the exception it raises.
clean_amount(amount) ==
    CASE amount.kind = "series" ->
             [exception |-> AmbiguousTruth, value |-> FromInt(0)]
      [] amount.kind = "nan" ->
             [exception |-> "none", value |-> FromInt(0)]
      [] amount.kind = "number" ->
             [exception |-> "none", value |-> amount.value]
      [] amount.kind = "bigint" ->
             [exception |-> "int too large to convert to float",
              value |-> FromInt(0)]
      [] amount.kind = "str" ->
             LET parsed == float_of(cleaned_of(amount.chars))
             IN  [exception |-> "none",
                  value |-> IF parsed = None THEN FromInt(0) ELSE parsed.some]
      [] OTHER ->
             [exception |-> "none", value |-> FromInt(0)]

\* format(n, "02d") for n >= 0.
Format02d(n) ==
    IF n < 10 THEN <<"0">> \o StrOfNat(n) ELSE StrOfNat(n)

\* The fecha of a cell that is not missing: strftime('%d/%m/%Y') of a date,
\* else str(fecha).
fecha_of(cell) ==
    CASE cell.kind = "datetime" ->
             Format02d(cell.day) \o <<"/">> \o Format02d(cell.month)
                 \o <<"/">> \o StrOfNat(cell.year)
      [] cell.kind = "str" -> cell.chars

\* The roles, in the order of the dict identify_columns builds.
Roles ==
    <<"fecha_operacion", "concepto", "importe">>

\* bool(value) of a role's value: None and the empty name are falsy.
Truthy(value) ==
    value # None /\ value.some # ""

RECURSIVE Flatten(_)
Flatten(seqs) ==
    IF seqs = <<>> THEN <<>> ELSE Head(seqs) \o Flatten(Tail(seqs))

\* ', '.join(names)
JoinComma(names) ==
    Flatten([i \in DOMAIN names |->
                IF i = 1 THEN <<names[i]>> ELSE <<", ", names[i]>>])

\* The message naming only the first of the missing roles.
missing_roles_first_only(cols) ==
    LET missing == SelectSeq(Roles, LAMBDA k : cols[k] = None)
    IN  IF missing = <<>> THEN <<>> ELSE <<Head(missing)>>

\* missing = [k for k, v in columns.items() if v is None]
missing_roles(cols) ==
    SelectSeq(Roles, LAMBDA k : cols[k] = None)

\* found = {k: v for k, v in columns.items() if v is not None}
found_roles(cols) ==
    SelectSeq(Roles, LAMBDA k : cols[k] # None)

\* The message of the ValueError, piece by piece.
error_msg_of(frame, cols) ==
    LET missing == missing_roles(cols)
        found == found_roles(cols)
    IN  <<"Columnas no encontradas: ">> \o JoinComma(missing) \o <<"\n\n">>
        \o <<"Columnas encontradas en el archivo:\n">>
        \o Flatten([i \in DOMAIN frame.columns |->
                       <<"  - ", frame.columns[i], "\n">>])
        \o (IF found # <<>>
            THEN <<"\nColumnas identificadas:\n">>
                 \o Flatten([i \in DOMAIN found |->
                                <<"  - ", found[i], ": ", cols[found[i]].some,
                                  "\n">>])
            ELSE <<>>)
        \o <<"\nSugerencia: Verifica que el archivo Excel tenga las columnas correctas.">>

\* The reason of an exclusion by amount, were every such row an expense.
razon_always_expense(importe) ==
    <<"Gasto o importe cero">>

\* The reason of an exclusion by amount.
razon_of(importe) ==
    IF RLt(importe, FromInt(0))
    THEN <<"Gasto o importe cero">>
    ELSE <<"Importe cero">>

\* The entry of a row that raised, were its reason the bare exception.
error_entry_without_prefix(fecha, concepto, exception) ==
    [fecha |-> fecha, concepto |-> concepto, importe |-> FromInt(0),
     razon |-> <<exception>>]

\* The entry of a row whose try block raised (lines 361-366).
error_entry(fecha, concepto, exception) ==
    [fecha |-> fecha, concepto |-> concepto, importe |-> FromInt(0),
     razon |-> <<"Error al procesar: ", exception>>]

\* One pass of the loop of filter_income_transactions: the entry the row
\* gives, the list it goes to, and the exception the try block raised
\* ("none" if none).
process_row(frame, cols, row) ==
    LET amount_cell == RowGet(frame, row, cols.importe.some)
        fecha_cell == RowGet(frame, row, cols.fecha_operacion.some)
        concepto_cell == RowGet(frame, row, cols.concepto.some)
        cleaned == clean_amount(amount_cell)
        exception ==
            IF cleaned.exception # "none" THEN cleaned.exception
            ELSE IF fecha_cell.kind = "series" THEN AmbiguousTruth
            ELSE IF concepto_cell.kind = "series" THEN AmbiguousTruth
            ELSE "none"
        fecha == IF pd_isna(fecha_cell) THEN None
                 ELSE Some(fecha_of(fecha_cell))
        concepto == IF pd_isna(concepto_cell) THEN <<"Sin concepto">>
                    ELSE concepto_cell.chars
    IN  IF exception = "none"
        THEN IF RLt(FromInt(0), cleaned.value)
             THEN [included |-> TRUE, exception |-> "none",
                   entry |-> [fecha |-> fecha, concepto |-> concepto,
                              importe |-> cleaned.value]]
             ELSE [included |-> FALSE, exception |-> "none",
                   entry |-> [fecha |-> fecha, concepto |-> concepto,
                              importe |-> cleaned.value,
                              razon |-> razon_of(cleaned.value)]]
        ELSE \* the handler reads concepto and fecha again, each in a try
             LET unreadable == concepto_cell.kind = "series"
             IN  [included |-> FALSE, exception |-> exception,
                  entry |-> error_entry(
                               IF unreadable \/ fecha_cell.kind = "series"
                               THEN None ELSE fecha,
                               IF unreadable THEN <<"Error al leer concepto">>
                               ELSE concepto,
                               exception)]

\* The loop, were a row that raised to leave no entry.
after_row_dropping_errors(lists, outcome) ==
    IF outcome.exception # "none"
    THEN lists
    ELSE IF outcome.included
         THEN [transactions |-> Append(lists.transactions, outcome.entry),
               excluded |-> lists.excluded]
         ELSE [transactions |-> lists.transactions,
               excluded |-> Append(lists.excluded, outcome.entry)]

\* transactions and excluded after a pass of the loop.
after_row(lists, outcome) ==
    IF outcome.included
    THEN [transactions |-> Append(lists.transactions, outcome.entry),
          excluded |-> lists.excluded]
    ELSE [transactions |-> lists.transactions,
          excluded |-> Append(lists.excluded, outcome.entry)]

\* filter_income_transactions: the two lists, or the ValueError raised
\* before any row is read.
filter_income_transactions(frame, cols) ==
    IF ~ \A i \in DOMAIN Roles : Truthy(cols[Roles[i]])
    THEN [raised |-> TRUE, error_msg |-> error_msg_of(frame, cols),
          transactions |-> <<>>, excluded |-> <<>>]
    ELSE LET lists[k \in 0..Len(frame.rows)] ==
                 IF k = 0
                 THEN [transactions |-> <<>>, excluded |-> <<>>]
                 ELSE after_row(lists[k - 1],
                                process_row(frame, cols, frame.rows[k]))
         IN  [raised |-> FALSE, error_msg |-> <<>>,
              transactions |-> lists[Len(frame.rows)].transactions,
              excluded |-> lists[Len(frame.rows)].excluded]

\* No call of process_santander_file has returned.
NoExtraction ==
    [raised |-> FALSE, error_msg |-> <<>>, transactions |-> <<>>,
     excluded |-> <<>>,
     info |-> [total_filas |-> 0, transacciones_incluidas |-> 0,
               transacciones_excluidas |-> 0,
               columnas_identificadas |->
                   [fecha_operacion |-> None, concepto |-> None,
                    importe |-> None]]]

\* process_santander_file on the frame read and the columns identified:
\* the lists and info, or the ValueError of filter_income_transactions.
process_santander_file(frame, cols) ==
    LET filtered == filter_income_transactions(frame, cols)
    IN  IF filtered.raised
        THEN [NoExtraction EXCEPT !.raised = TRUE,
                                  !.error_msg = filtered.error_msg]
        ELSE [raised |-> FALSE, error_msg |-> <<>>,
              transactions |-> filtered.transactions,
              excluded |-> filtered.excluded,
              info |-> [total_filas |-> Len(frame.rows),
                        transacciones_incluidas |-> Len(filtered.transactions),
                        transacciones_excluidas |-> Len(filtered.excluded),
                        columnas_identificadas |-> cols]]

\* find_header_row, lines 22-24
fecha_keywords ==
    <<<<"f", "e", "c", "h", "a">>,
      <<"o", "p", "e", "r", "a", "c", "i", "ó", "n">>,
      <<"o", "p", "e", "r", "a", "c", "i", "o", "n">>,
      <<"v", "a", "l", "o", "r">>,
      <<"d", "a", "t", "e">>>>

concepto_keywords ==
    <<<<"c", "o", "n", "c", "e", "p", "t", "o">>,
      <<"d", "e", "s", "c", "r", "i", "p", "c", "i", "ó", "n">>,
      <<"d", "e", "s", "c", "r", "i", "p", "c", "i", "o", "n">>,
      <<"d", "e", "t", "a", "l", "l", "e">>,
      <<"m", "o", "t", "i", "v", "o">>>>

importe_keywords ==
    <<<<"i", "m", "p", "o", "r", "t", "e">>,
      <<"c", "a", "n", "t", "i", "d", "a", "d">>,
      <<"m", "o", "n", "t", "o">>,
      <<"v", "a", "l", "o", "r">>,
      <<"e", "u", "r", "o", "s">>,
      <<"e", "u", "r">>>>

\* Line 34: the cells of the row read, as lower-case stripped strings, ''
\* for a missing cell.
row_values_of(row) ==
    [i \in DOMAIN row |->
        IF pd_isna(row[i]) THEN <<>> ELSE py_strip(py_lower(row[i].chars))]

\* sum(1 for val in row_values for kw in keywords if kw in val)
keyword_count(row_values, keywords) ==
    Cardinality({pair \in (DOMAIN row_values) \X (DOMAIN keywords) :
                    py_in(keywords[pair[2]], row_values[pair[1]])})

\* The loop of find_header_row from row_idx on, over range(last): reading
\* past the last row of the sheet gives an empty frame, and the loop
\* continues.
RECURSIVE header_scan(_, _, _)
header_scan(rows, last, row_idx) ==
    IF row_idx >= last
    THEN -1
    ELSE IF row_idx >= Len(rows)
    THEN header_scan(rows, last, row_idx + 1)
    ELSE LET row_values == row_values_of(rows[row_idx + 1])
             fecha_count == keyword_count(row_values, fecha_keywords)
             concepto_count == keyword_count(row_values, concepto_keywords)
             importe_count == keyword_count(row_values, importe_keywords)
         IN  IF \/ fecha_count > 0 /\ concepto_count > 0
                \/ fecha_count > 0 /\ importe_count > 0
                \/ concepto_count > 0 /\ importe_count > 0
             THEN row_idx
             ELSE header_scan(rows, last, row_idx + 1)

\* The search, were it to go through the whole sheet whatever max_rows.
find_header_row_past_max_rows(rows, max_rows_arg) ==
    header_scan(rows, Len(rows), 0)

\* find_header_row(file_path, max_rows), on the rows of the sheet.
find_header_row(rows, max_rows_arg) ==
    header_scan(rows, max_rows_arg, 0)

\* identify_columns, line 130: the column names, lower-case and stripped.
df_columns_lower(frame) ==
    [i \in DOMAIN frame.columns |->
        py_strip(py_lower(chars_of(frame.columns[i])))]

\* list.index(x): the first position of x.
first_index(list, matches(_)) ==
    CHOOSE i \in DOMAIN list :
        matches(list[i]) /\ \A j \in 1..(i - 1) : ~matches(list[j])

\* for pattern in patterns: if pattern in df_columns_lower: take the column
\* at df_columns_lower.index(pattern) and break.  None when no pattern is a
\* column.
by_exact_name(frame, patterns) ==
    LET lower == df_columns_lower(frame)
        present(pattern) == \E i \in DOMAIN lower : lower[i] = pattern
    IN  IF \E k \in DOMAIN patterns : present(patterns[k])
        THEN LET pattern == patterns[first_index(patterns, present)]
             IN  Some(frame.columns[first_index(lower, LAMBDA c : c = pattern)])
        ELSE None

fecha_patterns ==
    <<<<"f", "e", "c", "h", "a", " ", "o", "p", "e", "r", "a", "c", "i", "ó", "n">>,
      <<"f", "e", "c", "h", "a", " ", "o", "p", "e", "r", "a", "c", "i", "o", "n">>,
      <<"f", "e", "c", "h", "a", "o", "p", "e", "r", "a", "c", "i", "ó", "n">>,
      <<"f", "e", "c", "h", "a", "o", "p", "e", "r", "a", "c", "i", "o", "n">>>>

concepto_patterns ==
    <<<<"c", "o", "n", "c", "e", "p", "t", "o">>>>

concepto_alt_patterns ==
    <<<<"d", "e", "s", "c", "r", "i", "p", "c", "i", "ó", "n">>,
      <<"d", "e", "s", "c", "r", "i", "p", "c", "i", "o", "n">>,
      <<"d", "e", "t", "a", "l", "l", "e">>,
      <<"d", "e", "s", "c", "r", "i", "p">>>>

importe_patterns ==
    <<<<"i", "m", "p", "o", "r", "t", "e">>>>

importe_alt_patterns ==
    <<<<"c", "a", "n", "t", "i", "d", "a", "d">>,
      <<"m", "o", "n", "t", "o">>,
      <<"v", "a", "l", "o", "r">>,
      <<"a", "m", "o", "u", "n", "t">>>>

\* Lines 141-145: the first column whose name holds 'fecha'.
first_fecha_column(frame) ==
    LET lower == df_columns_lower(frame)
        holds(c) == py_in(<<"f", "e", "c", "h", "a">>, c)
    IN  IF \E i \in DOMAIN lower : holds(lower[i])
        THEN Some(frame.columns[first_index(lower, holds)])
        ELSE None

\* The date column by name, were the first column holding 'fecha' taken
\* before the patterns are tried.
fecha_by_name_first_fecha(frame) ==
    IF first_fecha_column(frame) # None
    THEN first_fecha_column(frame)
    ELSE by_exact_name(frame, fecha_patterns)

\* Lines 132-145
fecha_by_name(frame) ==
    IF by_exact_name(frame, fecha_patterns) # None
    THEN by_exact_name(frame, fecha_patterns)
    ELSE first_fecha_column(frame)

\* Lines 147-162
concepto_by_name(frame) ==
    IF by_exact_name(frame, concepto_patterns) # None
    THEN by_exact_name(frame, concepto_patterns)
    ELSE by_exact_name(frame, concepto_alt_patterns)

\* Lines 164-179
importe_by_name(frame) ==
    IF by_exact_name(frame, importe_patterns) # None
    THEN by_exact_name(frame, importe_patterns)
    ELSE by_exact_name(frame, importe_alt_patterns)

\* sample_size = min(10, df.shape[0])
sample_size_of(frame) ==
    IF Len(frame.rows) < 10 THEN Len(frame.rows) ELSE 10

\* df_sample[col].dropna(): the cells of the column in the first
\* sample_size rows that are not missing.
sample_dropna(frame, i) ==
    {r \in 1..sample_size_of(frame) : ~pd_isna(frame.rows[r][i])}

\* re.search of \d{1,2}[/-]\d{1,2}[/-]\d{2,4} or of
\* \d{4}[/-]\d{1,2}[/-]\d{1,2} in a text.
date_shaped(chars) ==
    LET digit(i) == i \in DOMAIN chars /\ IsDigit(chars[i])
        sep(i) == i \in DOMAIN chars /\ chars[i] \in {"/", "-"}
    IN  \/ \E i \in DOMAIN chars, a \in {1, 2} :
              /\ digit(i) /\ sep(i + 1)
              /\ \A k \in 1..a : digit(i + 1 + k)
              /\ sep(i + 2 + a)
              /\ digit(i + 3 + a) /\ digit(i + 4 + a)
       \/ \E i \in DOMAIN chars, a \in {1, 2} :
              /\ \A k \in 0..3 : digit(i + k)
              /\ sep(i + 4)
              /\ \A k \in 1..a : digit(i + 4 + k)
              /\ sep(i + 5 + a)
              /\ digit(i + 6 + a)

\* Lines 196-201, for a cell that is not missing: str() of a date is
\* 'yyyy-mm-dd hh:mm:ss', and a column of dates has a datetime64 dtype;
\* str() of a number holds no separator after a digit.
counts_as_date(cell) ==
    CASE cell.kind = "datetime" -> TRUE
      [] cell.kind = "str" -> date_shaped(py_lower(cell.chars))
      [] OTHER -> FALSE

\* Lines 214-219: clean_amount(val) != 0, an exception counting for nothing.
counts_as_number(cell) ==
    /\ clean_amount(cell).exception = "none"
    /\ clean_amount(cell).value # FromInt(0)

\* Line 236: len(val_str) > 5 and not re.match(r'^[\d\s,.\-]+$', val_str).
\* str() of a date has 19 characters, a colon among them; str() of the
\* numbers of the model is digits, period and minus sign.
counts_as_text(cell) ==
    CASE cell.kind = "datetime" -> TRUE
      [] cell.kind = "str" ->
             /\ Len(cell.chars) > 5
             /\ \E i \in DOMAIN cell.chars :
                   ~(IsDigit(cell.chars[i])
                        \/ cell.chars[i] \in {" ", ",", ".", "-"})
      [] OTHER -> FALSE

\* date_count, numeric_count or text_count of column i.
sample_count(frame, i, counts(_)) ==
    Cardinality({r \in sample_dropna(frame, i) : counts(frame.rows[r][i])})

\* The first column, among those not skipped, whose count reaches
\* sample_size * percent / 100; None when there is none.
first_inferred(frame, counts(_), percent, skipped) ==
    LET reaches(i) ==
            /\ frame.columns[i] \notin skipped
            /\ 100 * sample_count(frame, i, counts)
                   >= percent * sample_size_of(frame)
        found == {i \in DOMAIN frame.columns : reaches(i)}
    IN  IF found = {}
        THEN None
        ELSE Some(frame.columns[CHOOSE i \in found : \A j \in found : i <= j])

\* Lines 207-222: every column is tried, the date column too.
infer_importe(frame) ==
    first_inferred(frame, counts_as_number, 50, {})

\* identify_columns(df)
identify_columns(frame) ==
    LET fecha1 == fecha_by_name(frame)
        concepto1 == concepto_by_name(frame)
        importe1 == importe_by_name(frame)
        infer == /\ ~(Truthy(fecha1) /\ Truthy(concepto1) /\ Truthy(importe1))
                 /\ Len(frame.rows) > 0
        found(value) == IF value = None THEN {} ELSE {value.some}
        \* lines 189-204
        fecha2 == IF infer /\ ~Truthy(fecha1)
                  THEN LET inferred == first_inferred(frame, counts_as_date,
                                                      50, {})
                       IN  IF inferred = None THEN fecha1 ELSE inferred
                  ELSE fecha1
        \* lines 207-222
        importe2 == IF infer /\ ~Truthy(importe1)
                    THEN LET inferred == infer_importe(frame)
                         IN  IF inferred = None THEN importe1 ELSE inferred
                    ELSE importe1
        \* lines 225-240
        concepto2 == IF infer /\ ~Truthy(concepto1)
                     THEN LET inferred ==
                                  first_inferred(frame, counts_as_text, 30,
                                                 found(fecha2) \cup found(importe2))
                          IN  IF inferred = None THEN concepto1 ELSE inferred
                     ELSE concepto1
    IN  [fecha_operacion |-> fecha2, concepto |-> concepto2,
         importe |-> importe2]

\* ------------------------------------------------ sessions and tables
\* The browser sessions of the dashboard: each runs app.py in a thread of
\* its own, in one process (one config module, one history store).
Sessions ==
    {1, 2}

\* A session whose button has not been pressed.  The field overlapped is
\* kept for the claims (the program holds no such flag): whether the session
\* read the history while another had read it and not yet recorded.
IdleSession ==
    [pc           |-> "idle",
     transactions |-> <<>>,
     max_base     |-> DEFAULT_MAX_INVOICE_BASE,
     original     |-> [IVA_RATE |-> DEFAULT_IVA_RATE,
                       MAX_INVOICE_BASE |-> DEFAULT_MAX_INVOICE_BASE],
     invoices     |-> <<>>,
     last_year    |-> 0,
     start_number |-> 0,
     overlapped   |-> FALSE,
     generated    |-> <<>>,
     error        |-> "none"]

\* No statement has been read.
NoTable ==
    [columns |-> <<>>, rows |-> <<>>]

NoColumns ==
    [fecha_operacion |-> None, concepto |-> None, importe |-> None]

\* None of clean_amount, find_header_row, extract_invoice_info,
\* process_transactions and split_transaction is being called on its own.
NoCalls ==
    /\ amount_arg = NaN
    /\ clean_result = None
    /\ file_rows = <<>>
    /\ max_rows = 0
    /\ header_row = None
    /\ invoice_number_str = <<>>
    /\ invoice_info = None
    /\ statement = <<>>
    /\ split_transactions = <<>>
    /\ returned = <<>>

\* ----------------------------------------- the partitioner, as a machine
InitSplit ==
    /\ \E x \in SplitInputs :
          /\ transaction = x.t
          /\ max_total = x.mt
          /\ IVA_RATE = x.iva
          /\ fp_err = x.fp
    /\ MAX_INVOICE_BASE = DEFAULT_MAX_INVOICE_BASE
    /\ invoices = <<>>
    /\ split_pc = "ready"
    /\ USE_DATABASE = TRUE
    /\ db_up = TRUE
    /\ invoice_history = <<>>
    /\ db_next_id = 1
    /\ history_json = <<>>
    /\ today = 1
    /\ issued = <<>>
    /\ last_run = [name |-> "none"]
    /\ session = [s \in Sessions |-> IdleSession]
    /\ df = NoTable
    /\ columns = NoColumns
    /\ extract_pc = "idle"
    /\ extracted = NoExtraction
    /\ NoCalls

SplitTransaction ==
    /\ split_pc = "ready"
    /\ invoices' = split_transaction(config, transaction, max_total)
    /\ split_pc' = "done"
    /\ UNCHANGED <<IVA_RATE, MAX_INVOICE_BASE, transaction, max_total, fp_err>>
    /\ UNCHANGED <<historyVars, envVars, issued, last_run>>
    /\ UNCHANGED <<sessionVars, readerVars, callVars>>

NextSplit ==
    SplitTransaction

SpecSplit ==
    InitSplit /\ [][NextSplit]_vars

\* ------------------------------------- history_manager.py, its operations
\* add_to_history: the record goes to the table; when db_manager is missing
\* or save_history_to_db raises, it is appended to what load_history()
\* returns and the JSON file is rewritten with the result.
add_to_history(invoice_files) ==
    LET record == history_record(invoice_files)
    IN  IF USE_DATABASE /\ db_up
        THEN /\ invoice_history' =
                    Append(invoice_history, WithId(record, db_next_id))
             /\ db_next_id' = db_next_id + 1
             /\ UNCHANGED history_json
        ELSE LET history == load_history
             IN  /\ history_json' =
                        Append(history, WithId(record, Len(history) + 1))
                 /\ UNCHANGED <<invoice_history, db_next_id>>

\* delete_from_history: DELETE ... WHERE id; when db_manager is missing or
\* delete_from_db raises (its handler reads conn, unbound when the
\* connection failed), the record is filtered out of load_history() and the
\* JSON file is rewritten if something was removed.
delete_from_history(record_id) ==
    IF USE_DATABASE /\ db_up
    THEN /\ invoice_history' =
                SelectSeq(invoice_history, LAMBDA r : r.id # record_id)
         /\ UNCHANGED <<db_next_id, history_json>>
    ELSE LET history == load_history
             kept == SelectSeq(history, LAMBDA r : r.id # record_id)
         IN  /\ history_json' =
                    IF Len(kept) < Len(history) THEN kept ELSE history_json
             /\ UNCHANGED <<invoice_history, db_next_id>>

\* delete_month_from_history: the same by month.
delete_month_from_history(month) ==
    IF USE_DATABASE /\ db_up
    THEN /\ invoice_history' =
                SelectSeq(invoice_history, LAMBDA r : r.month # month)
         /\ UNCHANGED <<db_next_id, history_json>>
    ELSE LET history == load_history
             kept == SelectSeq(history, LAMBDA r : r.month # month)
         IN  /\ history_json' =
                    IF Len(kept) < Len(history) THEN kept ELSE history_json
             /\ UNCHANGED <<invoice_history, db_next_id>>

\* ------------------------------------------------- the program's machine
Init ==
    /\ IVA_RATE = DEFAULT_IVA_RATE
    /\ MAX_INVOICE_BASE = DEFAULT_MAX_INVOICE_BASE
    /\ transaction = None
    /\ max_total = None
    /\ split_pc = "idle"
    /\ fp_err = FpTotal(0)
    /\ invoices = <<>>
    /\ USE_DATABASE \in BOOLEAN
    /\ db_up = TRUE
    /\ \E h \in InitialHistories :
          /\ invoice_history = IF USE_DATABASE THEN h ELSE <<>>
          /\ history_json = IF USE_DATABASE THEN <<>> ELSE h
    /\ db_next_id = Len(invoice_history) + 1
    /\ today = 1
    /\ issued = <<>>
    /\ last_run = [name |-> "none"]
    /\ session = [s \in Sessions |-> IdleSession]
    /\ df = NoTable
    /\ columns = NoColumns
    /\ extract_pc = "idle"
    /\ extracted = NoExtraction
    /\ NoCalls

\* app.py, the handler of the button "Procesar Extracto", on the income
\* transactions of the uploaded statement and the sidebar's rate and
\* ceiling.  generate_invoices is called with the keywords start_number and
\* year; a keyword the function does not declare raises TypeError before
\* its body runs, and the handler's except Exception reports it.
ProcesarExtracto(transactions, iva_rate, max_base) ==
    IF transactions = <<>>
    THEN /\ last_run' = [name |-> "ProcesarExtracto", error |-> "none"]
         /\ UNCHANGED <<configVars, invoices, historyVars, issued>>
    ELSE LET found_year == get_last_year_with_invoices
             last_year == IF found_year = None THEN now_year
                          ELSE found_year.some
             last_number == get_last_invoice_number(last_year)
             start_number == last_number + 1
             accepted == {"start_number", "year"} \subseteq
                             generate_invoices_params
             mutated == [IVA_RATE |-> iva_rate, MAX_INVOICE_BASE |-> max_base]
         IN  /\ IVA_RATE' = iva_rate
             /\ MAX_INVOICE_BASE' = max_base
             /\ invoices' = process_transactions(mutated, transactions, max_base)
             /\ IF accepted
                THEN LET generated ==
                             generate_invoices(invoices', start_number, now_year)
                     IN  /\ issued' = issued \o
                                [i \in DOMAIN generated |-> generated[i].number]
                         /\ add_to_history(generated)
                         /\ last_run' =
                                [name |-> "ProcesarExtracto", error |-> "none",
                                 last_year |-> last_year,
                                 start_number |-> start_number,
                                 generated |-> generated]
                ELSE /\ last_run' =
                            [name |-> "ProcesarExtracto",
                             error |-> "TypeError",
                             last_year |-> last_year,
                             start_number |-> start_number]
                     /\ UNCHANGED <<historyVars, issued>>

\* src/main.py, the command line, on the income transactions of the
\* statement and the arguments --iva (as a fraction), --max-base and
\* --start-number: the numbers are stamped from start_number within the
\* current year, and nothing is recorded.  The process sets its own config
\* to the arguments, and ends.
main(transactions, iva, max_base, start_number) ==
    LET mutated == [IVA_RATE |-> iva, MAX_INVOICE_BASE |-> max_base]
        drafts == process_transactions(mutated, transactions, max_base)
        generated == generate_invoices(drafts, start_number, now_year)
    IN  /\ Len(issued) + Len(drafts) <= MaxIssued
        /\ IF transactions = <<>>
           THEN /\ last_run' = [name |-> "main", error |-> "none"]
                /\ UNCHANGED <<invoices, issued>>
           ELSE /\ invoices' = drafts
                /\ issued' = issued \o
                       [i \in DOMAIN generated |-> generated[i].number]
                /\ last_run' = [name |-> "main", error |-> "none",
                                 year |-> now_year,
                                 start_number |-> start_number,
                                 generated |-> generated]
        /\ UNCHANGED <<configVars, historyVars>>

RunProcesarExtracto ==
    /\ \E transactions \in Statements, sidebar \in Settings :
          ProcesarExtracto(transactions, sidebar.IVA_RATE,
                           sidebar.MAX_INVOICE_BASE)
    /\ UNCHANGED <<splitVars, envVars>>
    /\ UNCHANGED <<sessionVars, readerVars, callVars>>

RunMain ==
    /\ \E transactions \in Statements, args \in Settings,
          start_number \in StartNumberArgs :
          main(transactions, args.IVA_RATE, args.MAX_INVOICE_BASE,
               start_number)
    /\ UNCHANGED <<splitVars, envVars>>
    /\ UNCHANGED <<sessionVars, readerVars, callVars>>

\* add_to_history on what generate_invoices returns for one draft and a
\* first sequence.
AddToHistory ==
    /\ Len(invoice_history) < MaxRecords
    /\ Len(history_json) < MaxRecords
    /\ db_next_id <= MaxRecordId
    /\ \E start_number \in StartNumbers :
          LET defaults == [IVA_RATE |-> DEFAULT_IVA_RATE,
                           MAX_INVOICE_BASE |-> DEFAULT_MAX_INVOICE_BASE]
              drafts == process_transactions(defaults, <<Tx(Euros(30000))>>,
                                             None)
          IN  add_to_history(generate_invoices(drafts, start_number, now_year))
    /\ UNCHANGED <<configVars, splitVars, envVars, invoices, issued, last_run>>
    /\ UNCHANGED <<sessionVars, readerVars, callVars>>

\* The button "Eliminar" of a record the history page lists.
DeleteFromHistory ==
    /\ \E i \in DOMAIN load_history :
          delete_from_history(load_history[i].id)
    /\ UNCHANGED <<configVars, splitVars, envVars, invoices, issued, last_run>>
    /\ UNCHANGED <<sessionVars, readerVars, callVars>>

\* The button "Eliminar Mes" of a month the history page lists.
DeleteMonthFromHistory ==
    /\ \E i \in DOMAIN load_history :
          delete_month_from_history(load_history[i].month)
    /\ UNCHANGED <<configVars, splitVars, envVars, invoices, issued, last_run>>
    /\ UNCHANGED <<sessionVars, readerVars, callVars>>

\* The connection to the database is lost, or comes back.
DbFails ==
    /\ USE_DATABASE
    /\ db_up
    /\ db_up' = FALSE
    /\ UNCHANGED <<configVars, splitVars, historyVars, USE_DATABASE, today,
                   invoices, issued, last_run>>
    /\ UNCHANGED <<sessionVars, readerVars, callVars>>

DbRecovers ==
    /\ USE_DATABASE
    /\ ~db_up
    /\ db_up' = TRUE
    /\ UNCHANGED <<configVars, splitVars, historyVars, USE_DATABASE, today,
                   invoices, issued, last_run>>
    /\ UNCHANGED <<sessionVars, readerVars, callVars>>

\* The next month begins.
NextMonth ==
    /\ today < Len(Calendar)
    /\ today' = today + 1
    /\ UNCHANGED <<configVars, splitVars, historyVars, USE_DATABASE, db_up,
                   invoices, issued, last_run>>
    /\ UNCHANGED <<sessionVars, readerVars, callVars>>

\* The dashboard and its history.
Next ==
    \/ RunProcesarExtracto
    \/ AddToHistory
    \/ DeleteFromHistory
    \/ DeleteMonthFromHistory
    \/ DbFails
    \/ DbRecovers
    \/ NextMonth

Spec ==
    Init /\ [][Next]_vars

\* Runs of the command line, which neither reads nor writes the history.
NextCLI ==
    \/ RunMain
    \/ NextMonth

SpecCLI ==
    Init /\ [][NextCLI]_vars

\* --------------------------------------- app.py, two sessions overlapping
\* The handler of "Procesar Extracto" in the steps another session's thread
\* may run between.  Lines 183-190: the button is pressed on a statement;
\* an empty one ends the run with a warning, else the session keeps the
\* config it found and sets the sidebar's rate and ceiling.
PressProcesar(s) ==
    /\ session[s].pc \in {"idle", "ended"}
    /\ \E transactions \in Statements, sidebar \in Settings :
          IF transactions = <<>>
          THEN /\ session' = [session EXCEPT
                                 ![s] = [IdleSession EXCEPT !.pc = "ended"]]
               /\ UNCHANGED configVars
          ELSE /\ session' = [session EXCEPT
                                 ![s] = [IdleSession EXCEPT
                                            !.pc = "configured",
                                            !.transactions = transactions,
                                            !.max_base = sidebar.MAX_INVOICE_BASE,
                                            !.original = config]]
               /\ IVA_RATE' = sidebar.IVA_RATE
               /\ MAX_INVOICE_BASE' = sidebar.MAX_INVOICE_BASE
    /\ UNCHANGED <<splitVars, historyVars, envVars, invoices, issued, last_run,
                   readerVars, callVars>>

\* Line 193: process_transactions, under the config in force at that moment.
SplitStatement(s) ==
    /\ session[s].pc = "configured"
    /\ session' = [session EXCEPT
                      ![s].pc = "split",
                      ![s].invoices =
                          process_transactions(config, session[s].transactions,
                                               session[s].max_base)]
    /\ UNCHANGED <<configVars, splitVars, historyVars, envVars, invoices, issued,
                   last_run, readerVars, callVars>>

\* Lines 202-214: the year to continue and the start number, from the
\* history as it is now.
ReadHistory(s) ==
    /\ session[s].pc = "split"
    /\ LET found_year == get_last_year_with_invoices
           last_year == IF found_year = None THEN now_year ELSE found_year.some
           start_number == get_last_invoice_number(last_year) + 1
           reading == {t \in Sessions \ {s} :
                          session[t].pc \in {"computed", "generated"}}
       IN  session' =
               [t \in Sessions |->
                   IF t = s
                   THEN [session[s] EXCEPT !.pc = "computed",
                                           !.last_year = last_year,
                                           !.start_number = start_number,
                                           !.overlapped = (reading # {})]
                   ELSE IF t \in reading
                        THEN [session[t] EXCEPT !.overlapped = TRUE]
                        ELSE session[t]]
    /\ UNCHANGED <<configVars, splitVars, historyVars, envVars, invoices, issued,
                   last_run, readerVars, callVars>>

\* Line 217 to the end.  The call of generate_invoices with the keywords
\* start_number and year: TypeError for a keyword the function does not
\* declare, reported by the handler's except Exception (the run ends, the
\* config stays as set); else the numbers are stamped and the config is
\* restored (lines 220-221).  Then, lines 245-256, add_to_history.
Finish(s) ==
    /\ session[s].pc \in {"computed", "generated"}
    /\ IF session[s].pc = "generated"
       THEN /\ add_to_history(session[s].generated)
            /\ session' = [session EXCEPT ![s].pc = "ended"]
            /\ UNCHANGED <<configVars, issued>>
       ELSE IF {"start_number", "year"} \subseteq generate_invoices_params
            THEN LET generated ==
                         generate_invoices(session[s].invoices,
                                           session[s].start_number, now_year)
                 IN  /\ issued' = issued \o
                            [i \in DOMAIN generated |-> generated[i].number]
                     /\ IVA_RATE' = session[s].original.IVA_RATE
                     /\ MAX_INVOICE_BASE' = session[s].original.MAX_INVOICE_BASE
                     /\ session' = [session EXCEPT ![s].pc = "generated",
                                                    ![s].generated = generated]
                     /\ UNCHANGED historyVars
            ELSE /\ session' = [session EXCEPT ![s].pc = "ended",
                                                ![s].error = "TypeError"]
                 /\ UNCHANGED <<configVars, historyVars, issued>>
    /\ UNCHANGED <<splitVars, envVars, invoices, last_run, readerVars,
                   callVars>>

NextOverlap ==
    \E s \in Sessions :
        \/ PressProcesar(s)
        \/ SplitStatement(s)
        \/ ReadHistory(s)
        \/ Finish(s)

SpecOverlap ==
    Init /\ [][NextOverlap]_vars

\* ------------------------------------------- inputs of the extraction
\* Cells of the three roles.
FechaText ==
    Str(<<"0", "1", "/", "1", "0", "/", "2", "0", "2", "5">>)

ConceptoText ==
    Str(<<"TRANSFERENCIA">>)

\* A data row, as its date, description and amount cells: an income given
\* as a number; an income given as text with a date cell ("250,00 EUR");
\* an expense in the European notation ("-45,30"); a zero; an amount with a
\* period for the thousands ("1.234,56") and no description; an empty
\* row; an amount no double can hold.
StatementRows ==
    {<<FechaText, ConceptoText, Number(Rat(10050, 100))>>,
     <<Datetime(3, 10, 2025), ConceptoText,
       Str(<<"2", "5", "0", ",", "0", "0", " ", "E", "U", "R">>)>>,
     <<FechaText, ConceptoText, Str(<<"-", "4", "5", ",", "3", "0">>)>>,
     <<FechaText, ConceptoText, Number(FromInt(0))>>,
     <<FechaText, NaN, Str(<<"1", ".", "2", "3", "4", ",", "5", "6">>)>>,
     <<NaN, NaN, NaN>>,
     <<FechaText, ConceptoText, BigInt>>}

RECURSIVE SeqsUpTo(_, _)
SeqsUpTo(S, n) ==
    IF n = 0
    THEN {<<>>}
    ELSE LET shorter == SeqsUpTo(S, n - 1)
         IN  shorter \cup {Append(q, x) : q \in shorter, x \in S}

\* The frames read_santander_excel gives for the rows, by header: the
\* three columns named as Santander names them; the date column twice
\* under one name (two headers that differ by a trailing blank, which
\* df.columns.str.strip() makes equal); a date column with a blank header.
NamedFrame(rows) ==
    [columns |-> <<"Fecha Operación", "Concepto", "Importe">>,
     rows    |-> rows]

TwiceDatedFrame(rows) ==
    [columns |-> <<"Fecha Operación", "Fecha Operación", "Concepto", "Importe">>,
     rows    |-> [i \in DOMAIN rows |->
                     <<rows[i][1], rows[i][1], rows[i][2], rows[i][3]>>]]

BlankDateFrame(rows) ==
    [columns |-> <<"", "Concepto", "Importe">>,
     rows    |-> rows]

\* What identify_columns may return for a frame: every role resolved to its
\* column, or some roles unresolved.
Resolved(frame) ==
    [fecha_operacion |-> Some(frame.columns[1]),
     concepto        |-> Some("Concepto"),
     importe         |-> Some("Importe")]

Mappings(frame) ==
    {[k \in {"fecha_operacion", "concepto", "importe"} |->
         IF k \in unresolved THEN None ELSE Resolved(frame)[k]] :
        unresolved \in SUBSET {"fecha_operacion", "concepto", "importe"}}

ExtractionInputs ==
    LET tables == SeqsUpTo(StatementRows, MaxRows)
    IN  {[df |-> NamedFrame(rows), columns |-> m] :
            rows \in tables, m \in Mappings(NamedFrame(<<>>))}
        \cup {[df |-> TwiceDatedFrame(rows),
               columns |-> Resolved(TwiceDatedFrame(rows))] : rows \in tables}
        \cup {[df |-> BlankDateFrame(rows),
               columns |-> Resolved(BlankDateFrame(rows))] : rows \in tables}

\* ------------------------------------------ the extraction, as a machine
InitReader ==
    /\ \E x \in ExtractionInputs :
          /\ df = x.df
          /\ columns = x.columns
    /\ extract_pc = "ready"
    /\ extracted = NoExtraction
    /\ IVA_RATE = DEFAULT_IVA_RATE
    /\ MAX_INVOICE_BASE = DEFAULT_MAX_INVOICE_BASE
    /\ transaction = None
    /\ max_total = None
    /\ split_pc = "idle"
    /\ fp_err = FpTotal(0)
    /\ invoices = <<>>
    /\ USE_DATABASE = TRUE
    /\ db_up = TRUE
    /\ invoice_history = <<>>
    /\ db_next_id = 1
    /\ history_json = <<>>
    /\ today = 1
    /\ issued = <<>>
    /\ last_run = [name |-> "none"]
    /\ session = [s \in Sessions |-> IdleSession]
    /\ NoCalls

ProcessSantanderFile ==
    /\ extract_pc = "ready"
    /\ extracted' = process_santander_file(df, columns)
    /\ extract_pc' = "done"
    /\ UNCHANGED <<df, columns>>
    /\ UNCHANGED <<configVars, splitVars, historyVars, envVars, sessionVars,
                   callVars, invoices, issued, last_run>>

NextReader ==
    ProcessSantanderFile

SpecReader ==
    InitReader /\ [][NextReader]_vars

\* ------------------------------------------- the state no call touches
\* The configuration as config.py sets it, an empty history, no run of an
\* entry point and no statement read.
ProgramIdle ==
    /\ IVA_RATE = DEFAULT_IVA_RATE
    /\ MAX_INVOICE_BASE = DEFAULT_MAX_INVOICE_BASE
    /\ transaction = None
    /\ max_total = None
    /\ split_pc = "idle"
    /\ fp_err = FpTotal(0)
    /\ invoices = <<>>
    /\ USE_DATABASE = TRUE
    /\ db_up = TRUE
    /\ invoice_history = <<>>
    /\ db_next_id = 1
    /\ history_json = <<>>
    /\ today = 1
    /\ issued = <<>>
    /\ last_run = [name |-> "none"]
    /\ session = [s \in Sessions |-> IdleSession]

NothingExtracted ==
    /\ df = NoTable
    /\ columns = NoColumns
    /\ extract_pc = "idle"
    /\ extracted = NoExtraction

\* ---------------------------------------- clean_amount, as a machine
\* The characters of the texts drawn: digits, the two separators, the
\* sign, and two characters the cleaning removes.
AmountChars ==
    {"0", "1", "5", ",", ".", "-", " ", "E"}

\* The cells drawn: every text of up to MaxAmountLen of these characters,
\* three amounts as statements write them, numbers, a missing value, a
\* date and an int no double can hold.
AmountCells ==
    {Str(chars) : chars \in SeqsUpTo(AmountChars, MaxAmountLen)}
    \cup {Str(<<"-", "4", "5", ",", "3", "0">>),
          Str(<<"2", "5", "0", ",", "0", "0", " ", "E", "U", "R">>),
          Str(<<"1", ".", "2", "3", "4", ",", "5", "6">>)}
    \cup {Number(Rat(k, 100)) : k \in {-4530, 0, 10050}}
    \cup {NaN, Datetime(3, 10, 2025), BigInt}

InitClean ==
    /\ amount_arg \in AmountCells
    /\ clean_result = None
    /\ file_rows = <<>>
    /\ max_rows = 0
    /\ header_row = None
    /\ invoice_number_str = <<>>
    /\ invoice_info = None
    /\ statement = <<>>
    /\ split_transactions = <<>>
    /\ returned = <<>>
    /\ ProgramIdle
    /\ NothingExtracted

CleanAmount ==
    /\ clean_result = None
    /\ clean_result' = clean_amount(amount_arg)
    /\ UNCHANGED <<amount_arg, headerVars, nomenclatureVars, processVars>>
    /\ UNCHANGED <<configVars, splitVars, historyVars, envVars, sessionVars,
                   readerVars, invoices, issued, last_run>>

NextClean ==
    CleanAmount

SpecClean ==
    InitClean /\ [][NextClean]_vars


\* -------------------------------------- find_header_row, as a machine
HeaderCell(name) ==
    Str(chars_of(name))

\* The rows a sheet is made of: the header as Santander writes it; a
\* header in capitals with blanks around a name; a row with one name
\* only; a row whose one name holds "valor", a keyword of two roles; a
\* data row; an empty row.
SheetRows ==
    {<<HeaderCell("Fecha Operación"), HeaderCell("Concepto"),
       HeaderCell("Importe")>>,
     <<HeaderCell("  FECHA "), HeaderCell("DESCRIPCIÓN"), NaN>>,
     <<HeaderCell("Concepto"), NaN, NaN>>,
     <<NaN, HeaderCell("Valor"), NaN>>,
     <<HeaderCell("01/10/2025"), HeaderCell("TRANSFERENCIA"), NaN>>,
     <<NaN, NaN, NaN>>}

InitHeader ==
    /\ file_rows \in SeqsUpTo(SheetRows, MaxSheetRows)
    /\ max_rows \in 0..(MaxSheetRows + 1)
    /\ header_row = None
    /\ amount_arg = NaN
    /\ clean_result = None
    /\ invoice_number_str = <<>>
    /\ invoice_info = None
    /\ statement = <<>>
    /\ split_transactions = <<>>
    /\ returned = <<>>
    /\ ProgramIdle
    /\ NothingExtracted

FindHeaderRow ==
    /\ header_row = None
    /\ header_row' = Some(find_header_row(file_rows, max_rows))
    /\ UNCHANGED <<file_rows, max_rows, cleanVars, nomenclatureVars,
                   processVars>>
    /\ UNCHANGED <<configVars, splitVars, historyVars, envVars, sessionVars,
                   readerVars, invoices, issued, last_run>>

NextHeader ==
    FindHeaderRow

SpecHeader ==
    InitHeader /\ [][NextHeader]_vars


\* -------------------------------------- identify_columns, as a machine
\* A description cell, character by character.
TextCell(name) ==
    Str(chars_of(name))

\* The cell a data row holds under a column of a statement, by the name of
\* the column; kind tells the rows apart.
NamedCell(name, kind) ==
    CASE name \in {"Fecha Operación", "Fecha Valor"} ->
             IF kind = 1 THEN FechaText ELSE Datetime(3, 10, 2025)
      [] name = "Concepto" -> TextCell("TRANSFERENCIA")
      [] name = "Importe" ->
             IF kind = 1 THEN Number(Rat(10050, 100))
             ELSE Str(<<"-", "4", "5", ",", "3", "0">>)
      [] name = "Monto EUR" ->
             IF kind = 1 THEN Number(Rat(10050, 100)) ELSE NaN
      [] OTHER -> NaN

\* The orders a set of names can stand in.
Orders(names) ==
    {order \in [1..Cardinality(names) -> names] :
        \A i, j \in DOMAIN order : order[i] = order[j] => i = j}

\* Statements with the columns as Santander names them, in every order,
\* with and without the column "Fecha Valor".
PermutedFrames ==
    {[columns |-> order,
      rows    |-> [r \in DOMAIN kinds |->
                      [i \in DOMAIN order |-> NamedCell(order[i], kinds[r])]]] :
        order \in Orders({"Fecha Operación", "Concepto", "Importe"})
                  \cup Orders({"Fecha Valor", "Fecha Operación", "Concepto",
                               "Importe"}),
        kinds \in SeqsUpTo({1, 2}, MaxRows)}

\* Rows as their date, description and amount cells, for the inference by
\* content: a full row; a row without a date; a row with a date only; a
\* row whose date is a date value, whose description is short and whose
\* amount is zero; an empty row.
ContentRows ==
    {<<FechaText, TextCell("TRANSFERENCIA"), Number(Rat(10050, 100))>>,
     <<NaN, TextCell("TRANSFERENCIA"), Str(<<"-", "4", "5", ",", "3", "0">>)>>,
     <<FechaText, NaN, NaN>>,
     <<Datetime(3, 10, 2025), TextCell("Saldo"), Number(FromInt(0))>>,
     <<NaN, NaN, NaN>>}

\* The rows, with the cells in the order place gives them.
Placed(rows, place) ==
    [r \in DOMAIN rows |-> [i \in DOMAIN place |-> rows[r][place[i]]]]

\* Statements whose header names no role ("Unnamed: 0", ...), with the
\* date, the description and the amount in that order or with the amount
\* first; and statements that name the date and the description but call
\* the amount "Monto EUR".
ContentFrames ==
    {[columns |-> <<"Unnamed: 0", "Unnamed: 1", "Unnamed: 2">>,
      rows    |-> Placed(rows, place)] :
        rows \in SeqsUpTo(ContentRows, MaxRows),
        place \in {<<1, 2, 3>>, <<3, 1, 2>>}}
    \cup {[columns |-> <<"Fecha Operación", "Concepto", "Monto EUR">>,
           rows    |-> rows] : rows \in SeqsUpTo(ContentRows, MaxRows)}

\* full rows followed by empty rows.
FullThenEmpty(full, empty) ==
    [r \in 1..(full + empty) |->
        IF r <= full
        THEN <<FechaText, TextCell("TRANSFERENCIA"), Number(Rat(10050, 100))>>
        ELSE <<NaN, NaN, NaN>>]

\* Statements of more than ten rows: the sample is the first ten.
LongFrames ==
    {[columns |-> <<"Unnamed: 0", "Unnamed: 1", "Unnamed: 2">>,
      rows    |-> FullThenEmpty(full, 12 - full)] : full \in {2, 3, 4, 5}}
    \cup {[columns |-> <<"Unnamed: 0", "Unnamed: 1", "Unnamed: 2">>,
           rows    |-> [r \in 1..12 |-> FullThenEmpty(2, 10)[13 - r]]]}

IdentifyInputs ==
    PermutedFrames \cup ContentFrames \cup LongFrames

InitIdentify ==
    /\ df \in IdentifyInputs
    /\ columns = NoColumns
    /\ extract_pc = "read"
    /\ extracted = NoExtraction
    /\ NoCalls
    /\ ProgramIdle

\* process_santander_file, line 386: columns = identify_columns(df)
IdentifyColumns ==
    /\ extract_pc = "read"
    /\ columns' = identify_columns(df)
    /\ extract_pc' = "identified"
    /\ UNCHANGED <<df, extracted>>
    /\ UNCHANGED <<configVars, splitVars, historyVars, envVars, sessionVars,
                   callVars, invoices, issued, last_run>>

NextIdentify ==
    IdentifyColumns

SpecIdentify ==
    InitIdentify /\ [][NextIdentify]_vars


\* --------------------------------- process_transactions, as a machine
\* The transactions of the lists drawn: 300.00 (one draft at 21 % under
\* 400.00), 700.00 and 1000.00 (three and four drafts), and 1000.00
\* carrying its own total 1210.02.  Their doubles are exact.
ListedTransactions ==
    {Tx(Euros(30000)), Tx(Euros(70000)), Tx(Euros(100000)),
     TxWithTotal(Euros(100000), Euros(121002))}

InitProcess ==
    /\ statement \in SeqsUpTo(ListedTransactions, MaxTransactions)
    /\ max_total \in {Euros(40000), None}
    /\ split_transactions = <<>>
    /\ returned = <<>>
    /\ IVA_RATE = DEFAULT_IVA_RATE
    /\ MAX_INVOICE_BASE = DEFAULT_MAX_INVOICE_BASE
    /\ transaction = None
    /\ split_pc = "ready"
    /\ fp_err = FpTotal(0)
    /\ invoices = <<>>
    /\ USE_DATABASE = TRUE
    /\ db_up = TRUE
    /\ invoice_history = <<>>
    /\ db_next_id = 1
    /\ history_json = <<>>
    /\ today = 1
    /\ issued = <<>>
    /\ last_run = [name |-> "none"]
    /\ session = [s \in Sessions |-> IdleSession]
    /\ NothingExtracted
    /\ amount_arg = NaN
    /\ clean_result = None
    /\ file_rows = <<>>
    /\ max_rows = 0
    /\ header_row = None
    /\ invoice_number_str = <<>>
    /\ invoice_info = None

ProcessTransactions ==
    /\ split_pc = "ready"
    /\ invoices' = process_transactions(config, statement, max_total)
    /\ split_transactions' = split_records(config, statement, max_total)
    /\ split_pc' = "done"
    /\ UNCHANGED <<IVA_RATE, MAX_INVOICE_BASE, transaction, max_total, fp_err>>
    /\ UNCHANGED <<statement, returned, cleanVars, headerVars, nomenclatureVars>>
    /\ UNCHANGED <<historyVars, envVars, sessionVars, readerVars, issued,
                   last_run>>

NextProcess ==
    ProcessTransactions

SpecProcess ==
    InitProcess /\ [][NextProcess]_vars


\* ------------------- split_transaction called again, runs in between
\* One process (the dashboard's) in which split_transaction is called on
\* one transaction with one max_total argument, before and after runs of
\* the entry points.  A run of main.py is a process of its own.
InitRepeat ==
    /\ transaction \in {Tx(Euros(30000)), Tx(Euros(100000))}
    /\ max_total \in {Euros(40000), None}
    /\ split_pc = "ready"
    /\ fp_err = FpTotal(0)
    /\ returned = <<>>
    /\ statement = <<>>
    /\ split_transactions = <<>>
    /\ IVA_RATE = DEFAULT_IVA_RATE
    /\ MAX_INVOICE_BASE = DEFAULT_MAX_INVOICE_BASE
    /\ invoices = <<>>
    /\ USE_DATABASE = TRUE
    /\ db_up = TRUE
    /\ invoice_history = <<>>
    /\ db_next_id = 1
    /\ history_json = <<>>
    /\ today = 1
    /\ issued = <<>>
    /\ last_run = [name |-> "none"]
    /\ session = [s \in Sessions |-> IdleSession]
    /\ NothingExtracted
    /\ amount_arg = NaN
    /\ clean_result = None
    /\ file_rows = <<>>
    /\ max_rows = 0
    /\ header_row = None
    /\ invoice_number_str = <<>>
    /\ invoice_info = None

\* split_transaction(transaction, max_total), under the config in force.
CallSplitTransaction ==
    /\ Len(returned) < MaxCalls
    /\ returned' =
           Append(returned,
                  [max_total |-> IF max_total = None THEN MAX_INVOICE_BASE
                                 ELSE max_total,
                   invoices  |-> split_transaction(config, transaction,
                                                   max_total)])
    /\ UNCHANGED <<statement, split_transactions, cleanVars, headerVars,
                   nomenclatureVars>>
    /\ UNCHANGED <<configVars, splitVars, historyVars, envVars, sessionVars,
                   readerVars, invoices, issued, last_run>>

NextRepeat ==
    \/ CallSplitTransaction
    \/ RunProcesarExtracto
    \/ RunMain

SpecRepeat ==
    InitRepeat /\ [][NextRepeat]_vars


\* ------------------------------- extract_invoice_info, as a machine

\* f"{number:03d}", the sequence of the numbers issued with three digits
\* ("T2025026").
Format03d(n) ==
    IF n < 10 THEN <<"0", "0">> \o StrOfNat(n)
    ELSE IF n < 100 THEN <<"0">> \o StrOfNat(n)
    ELSE StrOfNat(n)

ThreeDigitNumber(year, number) ==
    <<"T">> \o StrOfNat(year) \o Format03d(number)

NomenclatureYears == {2025, 2026}

NomenclatureSequences == (1..MaxSequence) \cup {263, 264, 9999}

\* The numbers fix_nomenclature.py finds in the history: of the new format
\* with four and with three digits of sequence, of the legacy format, and
\* strings that are no invoice number.
NomenclatureStrings ==
    {generate_correct_number(y, n) :
        y \in NomenclatureYears, n \in NomenclatureSequences}
    \cup {ThreeDigitNumber(y, n) :
        y \in NomenclatureYears, n \in NomenclatureSequences}
    \cup {LegacyNumber(y % 100, n) :
        y \in NomenclatureYears, n \in NomenclatureSequences}
    \cup {<<>>, <<"T">>, <<"T", "2", "5">>, <<"T", "2", "0", "2", "5">>,
          <<"F", "2", "0", "2", "5", "0", "2", "6", "4">>,
          <<"T", "2", "0", "2", "5", "-", "0", "2", "6", "4">>,
          <<"T", "2", "0", "2", "5", "0", "2", "6", "4", "b">>}

InitNomenclature ==
    /\ ProgramIdle
    /\ NothingExtracted
    /\ amount_arg = NaN
    /\ clean_result = None
    /\ file_rows = <<>>
    /\ max_rows = 0
    /\ header_row = None
    /\ statement = <<>>
    /\ split_transactions = <<>>
    /\ returned = <<>>
    /\ invoice_number_str \in NomenclatureStrings
    /\ invoice_info = None

ExtractInvoiceInfo ==
    /\ invoice_info = None
    /\ invoice_info' = extract_invoice_info(invoice_number_str)
    /\ UNCHANGED <<invoice_number_str, cleanVars, headerVars, processVars>>
    /\ UNCHANGED <<configVars, splitVars, invoices, historyVars, envVars,
                   sessionVars, readerVars, issued, last_run>>

NextNomenclature ==
    ExtractInvoiceInfo

SpecNomenclature ==
    InitNomenclature /\ [][NextNomenclature]_vars

\* ------------------------------------------- claims on the partitioner
\* The ceiling in force for the call.
Ceiling ==
    IF max_total = None THEN MAX_INVOICE_BASE ELSE max_total

\* The transaction's tax-inclusive total before any rounding.
OriginalTotal ==
    IF "importe_con_iva" \in DOMAIN transaction
    THEN transaction.importe_con_iva
    ELSE RMul(transaction.importe, RAdd(FromInt(1), IVA_RATE))

IsWholeCents(x) ==
    100 % x.d = 0

RECURSIVE SumTotals(_)
SumTotals(drafts) ==
    IF drafts = <<>> THEN FromInt(0)
    ELSE RAdd(Head(drafts).importe_con_iva, SumTotals(Tail(drafts)))

\* x is y rounded to the nearest cent.
IsNearestCent(x, y) ==
    /\ IsWholeCents(x)
    /\ RLe(RSub(x, y), Rat(1, 200))
    /\ RLe(RSub(y, x), Rat(1, 200))

\* C1: every draft split_transaction returns has importe_con_iva <= ceiling,
\* for every transaction and every ceiling > 0.
C1_EveryDraftWithinCeiling ==
    split_pc = "done" =>
        \A i \in DOMAIN invoices : RLe(invoices[i].importe_con_iva, Ceiling)

\* C2: when the tax-inclusive total exceeds the ceiling, the drafts'
\* importe_con_iva sum to the original total, to the cent.
C2_PartsSumToOriginal ==
    (split_pc = "done" /\ RLt(Ceiling, OriginalTotal)) =>
        IsNearestCent(SumTotals(invoices), OriginalTotal)

\* C5, read to the cent: a transaction whose tax-inclusive total is within
\* the ceiling gives exactly one draft, part 1 of 1, whose base is the
\* original base and whose tax-inclusive amount is the original total (to
\* the nearest cent, which is all the draft keeps).
C5_SingleDraftEqualsOriginal ==
    (split_pc = "done" /\ RLe(OriginalTotal, Ceiling)) =>
        /\ Len(invoices) = 1
        /\ invoices[1].part_number = 1
        /\ invoices[1].total_parts = 1
        /\ invoices[1].base_imponible = transaction.importe
        /\ IsNearestCent(invoices[1].importe_con_iva, OriginalTotal)

\* C6: when the total T exceeds the ceiling C, the number of drafts is
\* n = ceil(T / C), the least n with T <= n * C; the drafts are numbered
\* 1..n in order and each carries total_parts = n.
C6_CeilNumberOfParts ==
    (split_pc = "done" /\ RLt(Ceiling, OriginalTotal)) =>
        LET n == Len(invoices)
        IN  /\ RLe(OriginalTotal, RMul(FromInt(n), Ceiling))
            /\ RLt(RMul(FromInt(n - 1), Ceiling), OriginalTotal)
            /\ \A i \in 1..n : /\ invoices[i].part_number = i
                               /\ invoices[i].total_parts = n

\* --------------------------------------------- claims on the numbering
\* The numbers the history holds, as the scans read them.
recorded_numbers ==
    invoice_numbers(load_history)

\* The sequences the numbers of the model carry.
KnownSequences ==
    StartNumbers \cup {50, 263}

\* The number str was issued for sequence n of year Y, in the shape
\* generate_invoice_number gives or in the two-digit-year shape.
IsNumberOf(str, Y, n) ==
    \/ str = generate_invoice_number(Y, n)
    \/ str = LegacyNumber(Y % 100, n)

\* The sequences the history holds for year Y.
SequencesOf(Y) ==
    {n \in KnownSequences :
        \E i \in DOMAIN recorded_numbers : IsNumberOf(recorded_numbers[i], Y, n)}

Maximum(S) ==
    CHOOSE n \in S : \A m \in S : m <= n

\* C3: once a number generate_invoice_number gave for year Y and sequence n
\* is in the history, get_last_invoice_number(Y) is at least n.
C3_NumberingMonotonic ==
    \A i \in DOMAIN recorded_numbers, Y \in Years, n \in KnownSequences :
        recorded_numbers[i] = generate_invoice_number(Y, n)
            => get_last_invoice_number(Y) >= n

\* C4: over runs of the program, no invoice number is stamped twice.
C4_NoNumberIssuedTwice ==
    \A i, j \in DOMAIN issued : i # j => issued[i] # issued[j]

\* C7: get_last_invoice_number(Y) is the highest sequence the history holds
\* for year Y; the entry of LAST_INVOICE_NUMBERS when the history holds
\* none; 0 when there is no entry either.
C7_LastNumberIsYearMaximum ==
    \A Y \in Years :
        get_last_invoice_number(Y) =
            IF SequencesOf(Y) # {}
            THEN Maximum(SequencesOf(Y))
            ELSE IF Y \in DOMAIN LAST_INVOICE_NUMBERS
                 THEN LAST_INVOICE_NUMBERS[Y]
                 ELSE 0

\* C8: from every number of the history, in the four-digit-year shape and
\* in the two-digit-year shape, the scan extracts the year and the sequence
\* the number was issued for.
C8_ScanExtractsYearAndSequence ==
    \A i \in DOMAIN recorded_numbers, Y \in Years, n \in KnownSequences :
        IsNumberOf(recorded_numbers[i], Y, n)
            => /\ invoice_year(recorded_numbers[i]) = Some(Y)
               /\ extract_invoice_number(recorded_numbers[i]) = Some(n)

C10_GaplessBatchFromLastNumber ==
    (last_run.name = "ProcesarExtracto" /\ "start_number" \in DOMAIN last_run) =>
        /\ last_run.error = "none"
        /\ "generated" \in DOMAIN last_run
        /\ Len(last_run.generated) = Len(invoices)
        /\ \A i \in DOMAIN invoices :
               last_run.generated[i].number =
                   generate_invoice_number(last_run.last_year,
                                           last_run.start_number + i - 1)

\* ------------------------------- claims on the year the numbering continues
\* The years and the sequences the numbers of the model were issued for.
RecordedYears ==
    Years \cup {2024}

RecordedSequences ==
    KnownSequences \cup {300}

\* The <<year, sequence>> pairs the numbers of the history were issued for.
RecordedPairs ==
    {p \in RecordedYears \X RecordedSequences :
        \E i \in DOMAIN recorded_numbers :
            IsNumberOf(recorded_numbers[i], p[1], p[2])}

\* C11: get_last_year_with_invoices returns the year of the number of the
\* history that carries the largest sequence of all years; the largest key
\* of LAST_INVOICE_NUMBERS only when the history holds no number.
C11_YearOfLargestSequence ==
    IF RecordedPairs # {}
    THEN \E p \in RecordedPairs :
            /\ \A q \in RecordedPairs : q[2] <= p[2]
            /\ get_last_year_with_invoices = Some(p[1])
    ELSE get_last_year_with_invoices =
             Some(Maximum(DOMAIN LAST_INVOICE_NUMBERS))

\* C12: no number of the history was issued for a year later than the year
\* get_last_year_with_invoices returns.
C12_NoInvoiceOfLaterYear ==
    \A p \in RecordedPairs :
        /\ get_last_year_with_invoices # None
        /\ p[1] <= get_last_year_with_invoices.some

\* ------------------------------------------- claims on overlapping runs
\* Sessions s and t have both run the handler to its end, each having read
\* the history before the other recorded, and computed the same start
\* number for the same year.
OverlappedOnSameStart(s, t) ==
    /\ s # t
    /\ session[s].pc = "ended" /\ session[t].pc = "ended"
    /\ session[s].overlapped /\ session[t].overlapped
    /\ session[s].last_year = session[t].last_year
    /\ session[s].start_number = session[t].start_number

\* C13: two overlapping runs that both read the history before either
\* appended compute the same start number for the same year, and so issue
\* the same invoice number twice.
C13_OverlapIssuesDuplicates ==
    \A s, t \in Sessions :
        OverlappedOnSameStart(s, t) =>
            \E i \in DOMAIN session[s].generated,
               j \in DOMAIN session[t].generated :
                session[s].generated[i].number = session[t].generated[j].number

\* Nothing keeps a second run from reading the history while a first has
\* read it and not yet recorded.
C13_BothComputedSameStart ==
    \E s, t \in Sessions :
        /\ s # t
        /\ session[s].pc = "computed" /\ session[t].pc = "computed"
        /\ session[s].last_year = session[t].last_year
        /\ session[s].start_number = session[t].start_number

\* ------------------------------------------- claims on what a run leaves
\* The numbers of a list of generated invoices, or of a record's files.
numbers_of(files) ==
    [k \in DOMAIN files |-> files[k].number]

\* C14: a run that generated invoices has appended, before it ended, one
\* history record holding exactly the numbers it issued, so that the next
\* run's scan reads them; for the dashboard and for the command line.
C14_RunRecordsIssuedNumbers ==
    ("generated" \in DOMAIN last_run /\ last_run.generated # <<>>) =>
        \E i \in DOMAIN load_history :
            numbers_of(load_history[i].invoice_files) =
                numbers_of(last_run.generated)

\* C15: while the database is unavailable the history is served from the
\* JSON file: load_history returns the records the file holds, among them
\* every record add_to_history wrote during the outage.
C15_FallbackServesJsonFile ==
    (~USE_DATABASE \/ ~db_up) => load_history = history_json

\* C16: every run of the handler of "Procesar Extracto", ended with or
\* without an exception, leaves config.IVA_RATE and config.MAX_INVOICE_BASE
\* as they were before the run started.
C16_ConfigRestoredAfterRun ==
    [][RunProcesarExtracto => UNCHANGED configVars]_vars

\* ------------------------------------------- claims on the extraction
\* The pieces occur in the message, one after the other.
Occurs(pieces, msg) ==
    \E i \in 1..(Len(msg) - Len(pieces) + 1) :
        SubSeq(msg, i, i + Len(pieces) - 1) = pieces

\* The first line of the message: what precedes its first blank line.
FirstLine(msg) ==
    LET ends == {i \in DOMAIN msg : msg[i] = "\n\n"}
    IN  SubSeq(msg, 1, (CHOOSE i \in ends : \A j \in ends : i <= j) - 1)

UnresolvedRoles ==
    {k \in {"fecha_operacion", "concepto", "importe"} : columns[k] = None}

ResolvedRoles ==
    {k \in {"fecha_operacion", "concepto", "importe"} : columns[k] # None}

\* C17: when a role is unresolved the extraction raises the ValueError, its
\* message names on its first line the roles that are missing (those and
\* no other), lists every column of the table and every resolved role with
\* its column, and no transaction and no excluded entry is produced.
C17_UnresolvedRoleRaisesNamingAll ==
    (extract_pc = "done" /\ UnresolvedRoles # {}) =>
        /\ extracted.raised
        /\ extracted.transactions = <<>>
        /\ extracted.excluded = <<>>
        /\ FirstLine(extracted.error_msg)[1] = "Columnas no encontradas: "
        /\ \A k \in UnresolvedRoles :
               \E i \in DOMAIN FirstLine(extracted.error_msg) :
                   FirstLine(extracted.error_msg)[i] = k
        /\ \A k \in ResolvedRoles :
               /\ \A i \in DOMAIN FirstLine(extracted.error_msg) :
                      FirstLine(extracted.error_msg)[i] # k
               /\ Occurs(<<"  - ", k, ": ", columns[k].some, "\n">>,
                         extracted.error_msg)
        /\ \A i \in DOMAIN df.columns :
               Occurs(<<"  - ", df.columns[i], "\n">>, extracted.error_msg)

\* A statement of three rows with two roles unresolved has been refused.
C17_Witness ==
    /\ extract_pc = "done"
    /\ Cardinality(UnresolvedRoles) = 2
    /\ Len(df.rows) = MaxRows
    /\ extracted.raised
    /\ extracted.error_msg # <<>>

\* What the loop has built after the first k rows of the table.
AfterRows(k) ==
    filter_income_transactions([df EXCEPT !.rows = SubSeq(df.rows, 1, k)],
                               columns)

\* Row i went to the transactions.
RowIncluded(i) ==
    /\ Len(AfterRows(i).transactions) = Len(AfterRows(i - 1).transactions) + 1
    /\ AfterRows(i).excluded = AfterRows(i - 1).excluded

\* Row i went to the excluded list.
RowExcluded(i) ==
    /\ Len(AfterRows(i).excluded) = Len(AfterRows(i - 1).excluded) + 1
    /\ AfterRows(i).transactions = AfterRows(i - 1).transactions

\* The excluded entry of row i.
ExcludedEntry(i) ==
    AfterRows(i).excluded[Len(AfterRows(i).excluded)]

\* Processing row i raised an exception.
RowRaised(i) ==
    process_row(df, columns, df.rows[i]).exception # "none"

\* The extraction went through the rows.
Extracted ==
    /\ extract_pc = "done"
    /\ ~extracted.raised

\* C18: every data row yields exactly one entry, in the transactions or in
\* the excluded list, and info counts them: included plus excluded is the
\* number of rows.
C18_EveryRowClassifiedOnce ==
    Extracted =>
        /\ \A i \in DOMAIN df.rows :
               /\ RowIncluded(i) \/ RowExcluded(i)
               /\ ~(RowIncluded(i) /\ RowExcluded(i))
        /\ extracted.transactions = AfterRows(Len(df.rows)).transactions
        /\ extracted.excluded = AfterRows(Len(df.rows)).excluded
        /\ Len(extracted.transactions) + Len(extracted.excluded) = Len(df.rows)
        /\ extracted.info.total_filas = Len(df.rows)
        /\ extracted.info.transacciones_incluidas = Len(extracted.transactions)
        /\ extracted.info.transacciones_excluidas = Len(extracted.excluded)
        /\ extracted.info.transacciones_incluidas
               + extracted.info.transacciones_excluidas
           = extracted.info.total_filas

\* A statement of three rows gave an income, an exclusion by amount and a
\* row that raised.
C18_Witness ==
    /\ Extracted
    /\ Len(df.rows) = MaxRows
    /\ Len(extracted.transactions) = 1
    /\ Len(extracted.excluded) = 2
    /\ \E i \in DOMAIN df.rows : RowRaised(i)
    /\ \E i \in DOMAIN df.rows : ~RowRaised(i) /\ RowExcluded(i)

\* clean_amount of the amount cell of row i returned a number.
AmountCleaned(i) ==
    clean_amount(RowGet(df, df.rows[i], columns.importe.some)).exception
        = "none"

CleanedAmount(i) ==
    clean_amount(RowGet(df, df.rows[i], columns.importe.some)).value

\* Row i is classified by its cleaned amount: included when it is strictly
\* positive, else excluded, as an expense when it is negative and as a
\* zero amount when it is zero (an unparsable amount cleans to zero).
ClassifiedByAmount(i) ==
    /\ RowIncluded(i) <=> RLt(FromInt(0), CleanedAmount(i))
    /\ RLt(CleanedAmount(i), FromInt(0)) =>
           /\ RowExcluded(i)
           /\ ExcludedEntry(i).razon = <<"Gasto o importe cero">>
    /\ CleanedAmount(i) = FromInt(0) =>
           /\ RowExcluded(i)
           /\ ExcludedEntry(i).razon = <<"Importe cero">>

\* C19 as stated: a row is an included transaction if and only if its
\* cleaned amount is strictly positive; with a negative cleaned amount it
\* is excluded as "Gasto o importe cero", with a zero one as "Importe cero".
C19_IncludedIffPositive ==
    Extracted =>
        \A i \in DOMAIN df.rows : AmountCleaned(i) => ClassifiedByAmount(i)

\* C19 amended: a row whose processing raises nothing is classified by its
\* cleaned amount; a row whose processing raises is excluded with the
\* reason "Error al procesar: ...", whatever its cleaned amount.
C19_ClassifiedByAmountUnlessRaised ==
    Extracted =>
        \A i \in DOMAIN df.rows :
            IF RowRaised(i)
            THEN /\ RowExcluded(i)
                 /\ ExcludedEntry(i).razon[1] = "Error al procesar: "
            ELSE ClassifiedByAmount(i)

\* Rows with a positive, a negative and an unparsable amount have been
\* classified, none of them raising.
C19_Witness ==
    /\ Extracted
    /\ \A i \in DOMAIN df.rows : ~RowRaised(i)
    /\ \E i, j, k \in DOMAIN df.rows :
          /\ RLt(FromInt(0), CleanedAmount(i)) /\ RowIncluded(i)
          /\ RLt(CleanedAmount(j), FromInt(0)) /\ RowExcluded(j)
          /\ df.rows[k][3].kind = "str"
          /\ CleanedAmount(k) = FromInt(0) /\ RowExcluded(k)

\* seq without its element at position i.
RemoveAt(seq, i) ==
    SubSeq(seq, 1, i - 1) \o SubSeq(seq, i + 1, Len(seq))

\* What the extraction returns for the table without its row i.
WithoutRow(i) ==
    process_santander_file([df EXCEPT !.rows = RemoveAt(df.rows, i)], columns)

\* C20: a row whose processing raises does not abort the batch: it is
\* excluded with amount 0.0 and a reason that starts with "Error al
\* procesar:", and the other rows, before and after it, give the entries
\* they give when the row is absent.
C20_RowErrorDoesNotAbort ==
    extract_pc = "done" =>
        \A i \in DOMAIN df.rows :
            (Truthy(columns.importe) /\ Truthy(columns.fecha_operacion)
             /\ Truthy(columns.concepto) /\ RowRaised(i)) =>
                LET k == Len(AfterRows(i).excluded)
                IN  /\ ~extracted.raised
                    /\ RowExcluded(i)
                    /\ extracted.excluded[k].importe = FromInt(0)
                    /\ extracted.excluded[k].razon[1] = "Error al procesar: "
                    /\ extracted.excluded[k] = ExcludedEntry(i)
                    /\ extracted.transactions = WithoutRow(i).transactions
                    /\ RemoveAt(extracted.excluded, k) = WithoutRow(i).excluded

\* The second of three rows raised, between an income and an expense.
C20_Witness ==
    /\ Extracted
    /\ Len(df.rows) = MaxRows
    /\ ~RowRaised(1) /\ RowIncluded(1)
    /\ RowRaised(2)
    /\ ~RowRaised(3) /\ RowExcluded(3)
    /\ extracted.excluded[1].razon[1] = "Error al procesar: "

\* ------------------------------------------- claims on amount cleaning
\* The text with every character but digits, comma, period and minus sign
\* removed, and every comma replaced by a period.
RECURSIVE KeptAndReplaced(_)
KeptAndReplaced(chars) ==
    IF chars = <<>>
    THEN <<>>
    ELSE LET c == Head(chars)
             rest == KeptAndReplaced(Tail(chars))
         IN  IF c = "," THEN <<".">> \o rest
             ELSE IF IsDigit(c) \/ c \in {".", "-"} THEN <<c>> \o rest
             ELSE rest

\* The decimal number a text writes, Some(x), or None when it writes none:
\* an optional minus sign, then digits with at most one period among them,
\* the digits before the period counting units and those after it tenths,
\* hundredths and so on.  point is where the period stands, 0 without one.
DecimalWritten(text) ==
    LET negative == text # <<>> /\ Head(text) = "-"
        body == IF negative THEN Tail(text) ELSE text
        points == {point \in 0..Len(body) :
                      /\ \A i \in 1..Len(body) :
                            IF i = point THEN body[i] = "."
                            ELSE IsDigit(body[i])
                      /\ Len(body) > (IF point = 0 THEN 0 ELSE 1)}
    IN  IF points = {}
        THEN None
        ELSE LET point == CHOOSE q \in points : TRUE
                 whole == IF point = 0 THEN body
                          ELSE SubSeq(body, 1, point - 1)
                 fraction == IF point = 0 THEN <<>>
                             ELSE SubSeq(body, point + 1, Len(body))
                 magnitude == RAdd(FromInt(IntOfDigits(whole)),
                                   Rat(IntOfDigits(fraction),
                                       Pow10(Len(fraction))))
             IN  Some(IF negative THEN RSub(FromInt(0), magnitude)
                      ELSE magnitude)

ThousandsAmount(i) ==
    RowGet(df, df.rows[i], columns.importe.some)
        = Str(<<"1", ".", "2", "3", "4", ",", "5", "6">>)

\* The transaction row i gave.
IncludedEntry(i) ==
    AfterRows(i).transactions[Len(AfterRows(i).transactions)]

\* C22: the period of thousands is stripped and the comma is the decimal
\* separator: a row whose amount is "1.234,56" is included as a
\* transaction of 1234.56.
C22_ThousandsSeparatorStripped ==
    Extracted =>
        \A i \in DOMAIN df.rows :
            (ThousandsAmount(i) /\ ~RowRaised(i)) =>
                /\ RowIncluded(i)
                /\ IncludedEntry(i).importe = Rat(123456, 100)

\* A row whose amount is "1.234,56" has been classified, without raising.
C22_ThousandsAmountExtracted ==
    /\ Extracted
    /\ \E i \in DOMAIN df.rows : ThousandsAmount(i) /\ ~RowRaised(i)

\* ------------------------------------------- claims on the header row
\* Some cell of the row holds one of the keywords.
RoleMatched(keywords, row) ==
    \E i \in DOMAIN row :
        /\ row[i] # NaN
        /\ LET text == py_strip(py_lower(row[i].chars))
           IN  \E k \in DOMAIN keywords : py_in(keywords[k], text)

\* At least two of the three roles have a keyword match in the row.
Qualifies(row) ==
    LET roles == <<fecha_keywords, concepto_keywords, importe_keywords>>
    IN  Cardinality({r \in DOMAIN roles : RoleMatched(roles[r], row)}) >= 2

\* The indices of the rows within the first max_rows that qualify.
QualifyingRows ==
    {r \in 0..(max_rows - 1) : r < Len(file_rows) /\ Qualifies(file_rows[r + 1])}

\* C23: find_header_row returns the index of the first row, among the
\* first max_rows, in which at least two of the three roles have a keyword
\* match, and -1 when there is none; it never returns a row at or beyond
\* max_rows.
C23_FirstQualifyingRow ==
    header_row # None =>
        LET qualifying == QualifyingRows
        IN  /\ header_row.some < max_rows
            /\ IF qualifying = {}
               THEN header_row.some = -1
               ELSE /\ header_row.some \in qualifying
                    /\ \A r \in qualifying : header_row.some <= r

\* The header was found below two rows that do not qualify, and in another
\* sheet it was not found because it lies beyond max_rows.
C23_Witness ==
    /\ header_row # None
    /\ Len(file_rows) = MaxSheetRows
    /\ \/ header_row.some = MaxSheetRows - 1
       \/ /\ header_row.some = -1
          /\ max_rows > 0
          /\ Qualifies(file_rows[MaxSheetRows])

\* ------------------------------------- claims on the columns identified
Identified ==
    extract_pc = "identified"

\* C24: whatever the order of the columns of a table that has columns named
\* "Fecha Operación", "Concepto" and "Importe", the date, the description
\* and the amount are mapped to those columns, also when another column
\* holding "fecha" stands before "Fecha Operación".
C24_ResolvedByNameInAnyOrder ==
    (/\ Identified
     /\ {"Fecha Operación", "Concepto", "Importe"}
            \subseteq {df.columns[i] : i \in DOMAIN df.columns}) =>
        columns = [fecha_operacion |-> Some("Fecha Operación"),
                   concepto        |-> Some("Concepto"),
                   importe         |-> Some("Importe")]

\* The columns were identified in a table of data rows where "Fecha Valor"
\* stands first and "Fecha Operación" last.
C24_Witness ==
    /\ Identified
    /\ Len(df.rows) > 0
    /\ Len(df.columns) = 4
    /\ df.columns[1] = "Fecha Valor"
    /\ df.columns[4] = "Fecha Operación"
    /\ columns.fecha_operacion = Some("Fecha Operación")
    /\ columns.importe = Some("Importe")

\* No role is resolved by name and the table has data rows: the three roles
\* are inferred from the content.
InferredByContent ==
    /\ Identified
    /\ df.columns = <<"Unnamed: 0", "Unnamed: 1", "Unnamed: 2">>
    /\ Len(df.rows) > 0

\* The sampled cells of column i that are not empty: those of the first ten
\* rows.
NonEmptySampled(i) ==
    {r \in DOMAIN df.rows : r <= 10 /\ df.rows[r][i] # NaN}

\* At least percent of the sampled non-empty cells of column i are of the
\* shape.
ShareOfNonEmpty(i, shape(_), percent) ==
    /\ NonEmptySampled(i) # {}
    /\ 100 * Cardinality({r \in NonEmptySampled(i) : shape(df.rows[r][i])})
           >= percent * Cardinality(NonEmptySampled(i))

\* The role is resolved exactly when some column open to it has the share,
\* and then to a column that has it.
ResolvedByShare(role, shape(_), percent, claimed) ==
    LET open == {i \in DOMAIN df.columns : df.columns[i] \notin claimed}
    IN  /\ columns[role] # None <=>
               \E i \in open : ShareOfNonEmpty(i, shape, percent)
        /\ columns[role] # None =>
               \E i \in open : /\ df.columns[i] = columns[role].some
                               /\ ShareOfNonEmpty(i, shape, percent)

\* C25: by content, the date role is resolved to a column at least 50% of
\* whose sampled non-empty cells are date-shaped, the amount role to one at
\* least 50% of whose sampled non-empty cells clean to a nonzero number, the
\* description role to one, not taken by the other two, at least 30% of
\* whose sampled non-empty cells are free text of more than 5 characters:
\* the share is of the non-empty cells of the column.
C25_ShareOfNonEmptyCells ==
    InferredByContent =>
        /\ ResolvedByShare("fecha_operacion", counts_as_date, 50, {})
        /\ ResolvedByShare("importe", counts_as_number, 50, {})
        /\ ResolvedByShare("concepto", counts_as_text, 30,
                           {columns[k].some :
                               k \in {r \in {"fecha_operacion", "importe"} :
                                         columns[r] # None}})

\* The roles were inferred from a table in which a column has an empty cell
\* among its sampled cells and a date in every other.
C25_InferredWithEmptyCells ==
    /\ InferredByContent
    /\ \E i \in DOMAIN df.columns :
          /\ \E r \in DOMAIN df.rows : r <= 10 /\ df.rows[r][i] = NaN
          /\ ShareOfNonEmpty(i, counts_as_date, 100)

\* C30: the mapping identify_columns returns is injective: two resolved
\* roles are never resolved to the same column (the amount role is not
\* inferred onto the column taken as the date).
C30_MappingInjective ==
    Identified =>
        \A r, q \in {"fecha_operacion", "concepto", "importe"} :
            (r # q /\ columns[r] # None /\ columns[q] # None) =>
                columns[r].some # columns[q].some

\* The amount role was inferred from the content of a table whose date
\* column was resolved by its name.
C30_AmountInferredAfterDateByName ==
    /\ Identified
    /\ df.columns = <<"Fecha Operación", "Concepto", "Monto EUR">>
    /\ columns.fecha_operacion = Some("Fecha Operación")
    /\ columns.importe # None

\* ------------------------------------- claims on process_transactions
\* What split_transaction gives for transaction k of the list.
DraftsOf(k) ==
    split_transaction(config, statement[k], max_total)

\* The transactions of the list that gave more than one draft, in the
\* order of the list.
SplitOnes ==
    SelectSeq([k \in DOMAIN statement |-> k], LAMBDA k : Len(DraftsOf(k)) > 1)

\* The tax-inclusive total of the transaction before the split.
TotalBeforeSplit(t) ==
    IF "importe_con_iva" \in DOMAIN t
    THEN t.importe_con_iva
    ELSE RMul(t.importe, RAdd(FromInt(1), IVA_RATE))

\* C26: process_transactions returns the drafts of the transactions one
\* after the other in the order of the transactions, and one split record
\* for each transaction that gave more than one draft and for no other,
\* with the transaction's tax-inclusive total, the number of its drafts and
\* the ceiling applied.
C26_DraftsInOrderAndSplitRecords ==
    split_pc = "done" =>
        /\ invoices = Flatten([k \in DOMAIN statement |-> DraftsOf(k)])
        /\ Len(split_transactions) = Len(SplitOnes)
        /\ \A j \in DOMAIN split_transactions :
              LET t == statement[SplitOnes[j]]
              IN  /\ split_transactions[j].fecha = t.fecha
                  /\ split_transactions[j].concepto = t.concepto
                  /\ split_transactions[j].importe_original = TotalBeforeSplit(t)
                  /\ split_transactions[j].num_facturas
                         = Len(DraftsOf(SplitOnes[j]))
                  /\ split_transactions[j].limite_aplicado = Ceiling

\* A list of three transactions, the second of one draft and the others of
\* several, gave two split records.
C26_Witness ==
    /\ split_pc = "done"
    /\ Len(statement) = MaxTransactions
    /\ Len(DraftsOf(1)) > 1
    /\ Len(DraftsOf(2)) = 1
    /\ Len(split_transactions) = 2
    /\ Len(invoices) > Len(statement)

\* ------------------------------------- claims on repeated partitioning
\* C27: two calls of split_transaction on the same transaction with the
\* same ceiling return the same drafts, whatever ran between them.
C27_SameDraftsOnEveryCall ==
    \A i, j \in DOMAIN returned :
        returned[i].max_total = returned[j].max_total =>
            returned[i].invoices = returned[j].invoices

\* split_transaction was called twice with the same ceiling, and an entry
\* point has run.
C27_CalledTwiceAroundARun ==
    /\ Len(returned) = 2
    /\ returned[1].max_total = returned[2].max_total
    /\ last_run.name = "ProcesarExtracto"

\* -------------------------------------- claims on fix_nomenclature.py

\* The pair extract_invoice_info returned, once it has returned.
ParsedAs(year, number) ==
    invoice_info = [year |-> Some(year), number |-> Some(number)]

\* C28: extract_invoice_info returns (year, number) for a number of the new
\* format with three digits of sequence ("T2025026" gives (2025, 26)) and
\* with four ("T20250264" gives (2025, 264)), and a number of the legacy
\* format "T" + two digits of year + four digits of sequence takes the
\* legacy branch: "T250264" gives (2025, 264).
C28_NewAndLegacyNumbersParsed ==
    invoice_info # None =>
        \A y \in NomenclatureYears, n \in NomenclatureSequences :
            /\ invoice_number_str = ThreeDigitNumber(y, n) => ParsedAs(y, n)
            /\ invoice_number_str = generate_correct_number(y, n)
                   => ParsedAs(y, n)
            /\ invoice_number_str = LegacyNumber(y % 100, n)
                   => ParsedAs(y, n)

\* The legacy number of the docstring has been parsed.
C28_LegacyNumberParsed ==
    /\ invoice_number_str = LegacyNumber(25, 264)
    /\ invoice_info # None

\* ------------------------------------- claims on appending to the history

\* Every record of a store before the step is in the store after it.
StillHolds(before, after) ==
    \A i \in DOMAIN before : \E j \in DOMAIN after : after[j] = before[i]

\* C29: a call of add_to_history, the calls that fall back to the JSON file
\* because the database write failed among them, keeps every record stored
\* before in the store it was written to (the table, the JSON file) and adds
\* the new record: one of the two stores holds one record more.
C29_AppendKeepsEarlierRecords ==
    [][AddToHistory =>
          /\ StillHolds(invoice_history, invoice_history')
          /\ StillHolds(history_json, history_json')
          /\ Len(invoice_history') + Len(history_json')
                 = Len(invoice_history) + Len(history_json) + 1]_vars

\* A record has been written to the JSON file while the database was
\* unavailable.
C29_RecordWrittenDuringOutage ==
    /\ USE_DATABASE
    /\ ~db_up
    /\ history_json # <<>>

====
